---- MODULE Spec2Model ----
(***************************************************************************)
(* The coordinator of the distributed LXC orchestrator: the node registry  *)
(* (network.c), the per-connection handler threads (network.c), the        *)
(* placement scorer and the operator commands over the ledger of deployed  *)
(* containers (coordinator.c).                                             *)
(*                                                                         *)
(* Left out of the records because no coordinator code reads them:         *)
(* hostname, ip_address, port, resources.container_count (the count the    *)
(* worker reports; placement reads node->container_count), config,         *)
(* created_at, started_at, log_file.                                       *)
(*                                                                         *)
(* Peers are worker processes: every frame a connection carries has the    *)
(* node id of the worker at its other end as sender_id (worker.c builds    *)
(* every frame with its own node_id).  Two connections may carry the same  *)
(* id (hostname_pid is not unique across hosts or restarts).               *)
(*                                                                         *)
(* Scores are doubles in the program; here they are exact rationals        *)
(* num/den with den > 0, compared by cross-multiplication.                 *)
(***************************************************************************)
EXTENDS Integers, Sequences, FiniteSets, TLC

VARIABLES
    nodes,                \* network.c: nodes[0 .. node_count-1]
    deployed_containers,  \* coordinator.c: deployed_containers[0 .. deployed_container_count-1]
    conns,                \* one handler thread per accepted socket
    now,                  \* time(NULL)
    last,                 \* the operation that produced this state, and its outcome
    pc,                   \* where each handler thread stands between two shared writes
    wire,                 \* frames sent to the worker and not yet received by it
    local_containers,     \* worker.c: local_containers[0 .. local_container_count-1]
    handled,              \* the frames the worker has handled, with what each one did
    ops,                  \* the operator's commands so far, with their outcomes
    up,                   \* frames the worker has sent and the coordinator has not yet received
    worker,               \* worker.c: where main and its two threads stand
    codec,                \* one message on its way through create, send and receive
    mutex,                \* the owner of nodes_mutex and of containers_mutex
    threads               \* where the command loop and each handler thread stand

(* The coordinator's tables and threads *)
cvars == <<nodes, deployed_containers, conns, now, last>>

(* The handlers' positions, the worker's side and the operator's history *)
aux == <<pc, wire, local_containers, handled, ops, up, worker, codec, mutex, threads>>

vars == <<nodes, deployed_containers, conns, now, last, pc, wire, local_containers,
          handled, ops, up, worker, codec, mutex, threads>>

----------------------------------------------------------------------------
(* Bounds of the model *)

MaxNodes == 2          \* MAX_NODES (256 in the program), scaled
MaxContainers == 2     \* MAX_CONTAINERS (1024 in the program), scaled
MaxPerNode == 2        \* max_containers a worker reports (50 in the program), scaled
MaxTime == 45          \* the clock stops here
TickStep == 15         \* seconds between two observations of the clock
NameCap == 3           \* MAX_NAME_LEN (256 in the program), scaled
DataCap == 2           \* sizeof(msg->data) (7672 in the program), scaled
MaxOps == 4            \* operator commands in a run of the worker's side
MaxUp == 2        \* frames the worker has sent and the coordinator has not read
MaxCommands == 1  \* commands of the operator while the worker's process is watched

(* Program constants *)

HEARTBEAT_TIMEOUT == 30

NodeIds == {"w1", "w2"}
IdOrder == <<"w1", "w2">>            \* NodeIds in strcmp order
Names == {"web"}
Sockets == {4, 5}

NULL == 0
NoFd == -1

NODE_DISCONNECTED == "DISCONNECTED"
NODE_CONNECTED == "CONNECTED"
NODE_BUSY == "BUSY"
NODE_ERROR == "ERROR"

CONTAINER_STOPPED == "STOPPED"
CONTAINER_STARTING == "STARTING"
CONTAINER_RUNNING == "RUNNING"
CONTAINER_STOPPING == "STOPPING"
CONTAINER_ERROR == "ERROR"

ContainerStates ==
    {CONTAINER_STOPPED, CONTAINER_STARTING, CONTAINER_RUNNING,
     CONTAINER_STOPPING, CONTAINER_ERROR}

(* snprintf(container->id, ..., "%s_%s", node_id, config->name) *)
ContainerId(node_id, name) == node_id \o "_" \o name

ContainerIds == {ContainerId(n, c) : n \in NodeIds, c \in Names}

(* What get_system_resources samples on a worker; percentages in 0..100. *)
ResourceSamples ==
    {[cpu_usage |-> 10, memory_usage |-> 10, disk_usage |-> 10, max_containers |-> MaxPerNode],
     [cpu_usage |-> 90, memory_usage |-> 10, disk_usage |-> 10, max_containers |-> MaxPerNode]}

(* memset(&resources, 0, sizeof(resource_info_t)) *)
ZeroResources ==
    [cpu_usage |-> 0, memory_usage |-> 0, disk_usage |-> 0, max_containers |-> 0]

----------------------------------------------------------------------------
(* Helpers over the two tables *)

RECURSIVE FirstIndex(_, _, _)
FirstIndex(seq, id, i) ==
    IF i > Len(seq) THEN NULL
    ELSE IF seq[i].id = id THEN i
    ELSE FirstIndex(seq, id, i + 1)

(* find_node_by_id: the first record with that id, as an index; NULL = 0 *)
find_node_by_id(node_id) == FirstIndex(nodes, node_id, 1)

(* the lookup loop of start/stop/delete/get_container_status *)
find_container(container_id) == FirstIndex(deployed_containers, container_id, 1)

(* the shift loops of delete_container: drop position i *)
RemoveAt(seq, i) == [j \in 1 .. (Len(seq) - 1) |-> IF j < i THEN seq[j] ELSE seq[j + 1]]

(* send_message: -1 on a negative descriptor or a failed send(); a send on *)
(* a descriptor no open connection has fails, one on an open connection    *)
(* succeeds unless the network fails it (netok).                           *)
send_message(socket_fd, netok) ==
    IF socket_fd < 0 THEN -1
    ELSE IF socket_fd \in Sockets /\ conns[socket_fd].open /\ netok THEN 0
    ELSE -1

NoFrame == "none"

(* the worker process before main runs: no thread, no exit code *)
NotStarted == [pc |-> "init", rx |-> FALSE, hb |-> FALSE, exit_code |-> "none",
               io_error |-> FALSE, coordinator_socket |-> NoFd, outstanding |-> <<>>]

(* no message is being built or sent *)
NoMessage == [stage |-> "idle"]

(* the thread of the command loop and the handler thread of each socket *)
ThreadOf(fd) == IF fd = 4 THEN "conn4" ELSE "conn5"

Threads == {"main"} \cup {ThreadOf(fd) : fd \in Sockets}

(* PTHREAD_MUTEX_INITIALIZER, twice *)
Unlocked == [nodes_mutex |-> "none", containers_mutex |-> "none"]

(* every thread between two of its operations *)
Idle == [pc |-> "idle", op |-> "none", id |-> "", node |-> "", sent |-> "none"]

AllIdle == [t \in Threads |-> Idle]

Outcome(op, id, res, sent) == [op |-> op, id |-> id, res |-> res, sent |-> sent]

----------------------------------------------------------------------------
Init ==
    /\ nodes = <<>>
    /\ deployed_containers = <<>>
    /\ conns = [fd \in Sockets |-> [open |-> FALSE, peer |-> "", node_id |-> ""]]
    /\ now = 0
    /\ last = Outcome("init", "", "OK", NoFrame)
    /\ pc = [fd \in Sockets |-> "recv"]
    /\ wire = <<>>
    /\ local_containers = <<>>
    /\ handled = <<>>
    /\ ops = <<>>
    /\ up = <<>>
    /\ worker = NotStarted
    /\ codec = NoMessage
    /\ mutex = Unlocked
    /\ threads = AllIdle

(* time(NULL) advances *)
Tick ==
    /\ now + TickStep <= MaxTime
    /\ now' = now + TickStep
    /\ last' = Outcome("tick", "", "OK", NoFrame)
    /\ UNCHANGED <<nodes, deployed_containers, conns>>

(* init_coordinator: accept() a worker's connection and start its handler *)
Accept(fd, peer) ==
    /\ ~conns[fd].open
    /\ conns' = [conns EXCEPT ![fd] = [open |-> TRUE, peer |-> peer, node_id |-> ""]]
    /\ last' = Outcome("accept", peer, "OK", NoFrame)
    /\ UNCHANGED <<nodes, deployed_containers, now>>

----------------------------------------------------------------------------
(* network.c: the registry *)

NewNode(node_id) ==
    [id |-> node_id, state |-> NODE_CONNECTED, last_heartbeat |-> now,
     socket_fd |-> 0, resources |-> ZeroResources,
     containers |-> <<>>, container_count |-> 0]

(* register_node that starts a known worker's record afresh *)
register_node_resets_heartbeat(node_id) ==
    IF Len(nodes) >= MaxNodes THEN [ret |-> -1, nodes |-> nodes]
    ELSE LET i == FirstIndex(nodes, node_id, 1) IN
         IF i # NULL
         THEN [ret |-> 0,
               nodes |-> [nodes EXCEPT ![i].state = NODE_CONNECTED,
                                       ![i].last_heartbeat = 0]]
         ELSE [ret |-> 0, nodes |-> Append(nodes, NewNode(node_id))]

(* register_node that makes room in a full registry by reusing its last slot *)
register_node_overwrites_last(node_id) ==
    LET i == FirstIndex(nodes, node_id, 1) IN
    IF i # NULL
    THEN IF Len(nodes) >= MaxNodes THEN [ret |-> -1, nodes |-> nodes]
         ELSE [ret |-> 0,
               nodes |-> [nodes EXCEPT ![i].state = NODE_CONNECTED,
                                       ![i].last_heartbeat = now]]
    ELSE IF Len(nodes) >= MaxNodes
         THEN [ret |-> 0, nodes |-> [nodes EXCEPT ![Len(nodes)] = NewNode(node_id)]]
         ELSE [ret |-> 0, nodes |-> Append(nodes, NewNode(node_id))]

(* register_node: [ret, nodes] *)
register_node(node_id) ==
    IF Len(nodes) >= MaxNodes THEN [ret |-> -1, nodes |-> nodes]
    ELSE LET i == FirstIndex(nodes, node_id, 1) IN
         IF i # NULL
         THEN [ret |-> 0,
               nodes |-> [nodes EXCEPT ![i].state = NODE_CONNECTED,
                                       ![i].last_heartbeat = now]]
         ELSE [ret |-> 0, nodes |-> Append(nodes, NewNode(node_id))]

(* handle_client_connection, case MSG_REGISTER_NODE *)
HandleRegister(fd) ==
    /\ conns[fd].open
    /\ LET sender == conns[fd].peer
           r == register_node(sender)
           i == FirstIndex(r.nodes, sender, 1)
       IN /\ conns' = [conns EXCEPT ![fd].node_id = sender]
          /\ IF r.ret = 0
             THEN /\ nodes' = IF i # NULL
                              THEN [r.nodes EXCEPT ![i].socket_fd = fd]
                              ELSE r.nodes
                  /\ last' = Outcome("register", sender, "OK", "ACK")
             ELSE /\ nodes' = r.nodes
                  /\ last' = Outcome("register", sender, "MaxNodes", NoFrame)
    /\ UNCHANGED <<deployed_containers, now>>

(* a heartbeat that refreshes the time and the state but drops the sample *)
heartbeat_update_keeps_resources(node, resources) ==
    [node EXCEPT !.last_heartbeat = now,
                 !.state = NODE_CONNECTED]

(* handle_client_connection, case MSG_NODE_HEARTBEAT; the worker's frame   *)
(* always carries a whole resource_info_t                                  *)
heartbeat_update(node, resources) ==
    [node EXCEPT !.last_heartbeat = now,
                 !.state = NODE_CONNECTED,
                 !.resources = resources]

HandleHeartbeat(fd, resources) ==
    /\ conns[fd].open
    /\ LET sender == conns[fd].peer
           i == find_node_by_id(sender)
       IN /\ nodes' = IF i # NULL
                      THEN [nodes EXCEPT ![i] = heartbeat_update(nodes[i], resources)]
                      ELSE nodes
          /\ last' = Outcome("heartbeat", sender, IF i # NULL THEN "OK" ELSE "NodeNotFound", NoFrame)
    /\ UNCHANGED <<deployed_containers, conns, now>>

(* handle_client_connection, case MSG_CONTAINER_STATUS: the loop over      *)
(* node->containers; the first entry with the reported id takes the state  *)
status_update(node, container_id, state) ==
    LET k == FirstIndex(node.containers, container_id, 1) IN
    IF k # NULL /\ k <= node.container_count
    THEN [node EXCEPT !.containers[k].state = state]
    ELSE node

HandleContainerStatus(fd, container_id, state) ==
    /\ conns[fd].open
    /\ LET sender == conns[fd].peer
           i == find_node_by_id(sender)
       IN /\ nodes' = IF i # NULL
                      THEN [nodes EXCEPT ![i] = status_update(nodes[i], container_id, state)]
                      ELSE nodes
          /\ last' = Outcome("status", container_id,
                             IF i = NULL THEN "NodeNotFound"
                             ELSE IF FirstIndex(nodes[i].containers, container_id, 1) = NULL
                                  THEN "ContainerNotFound"
                             ELSE state, NoFrame)
    /\ UNCHANGED <<deployed_containers, conns, now>>

(* handle_client_connection, case MSG_ERROR and default (a worker's ACK    *)
(* falls under default): logged, nothing changes                           *)
HandleOther(fd, type) ==
    /\ conns[fd].open
    /\ last' = Outcome(type, conns[fd].peer, "OK", NoFrame)
    /\ UNCHANGED <<nodes, deployed_containers, conns, now>>

(* mark_disconnected that also forgets the node's containers *)
mark_disconnected_and_drop(node) ==
    [node EXCEPT !.state = NODE_DISCONNECTED, !.socket_fd = NoFd,
                 !.containers = <<>>, !.container_count = 0]

(* a clean-up that marks the record and leaves its descriptor attached *)
mark_disconnected_keeps_socket(node) ==
    [node EXCEPT !.state = NODE_DISCONNECTED]

(* handle_client_connection after the loop: receive_message failed (close, *)
(* error or short read); the node this handler registered is marked        *)
mark_disconnected(node) ==
    [node EXCEPT !.state = NODE_DISCONNECTED, !.socket_fd = NoFd]

HandleClose(fd) ==
    /\ conns[fd].open
    /\ LET node_id == conns[fd].node_id
           i == find_node_by_id(node_id)
       IN /\ nodes' = IF node_id # "" /\ i # NULL
                      THEN [nodes EXCEPT ![i] = mark_disconnected(nodes[i])]
                      ELSE nodes
          /\ last' = Outcome("close", node_id,
                             IF node_id # "" /\ i # NULL THEN "OK" ELSE "NodeNotFound", NoFrame)
    /\ conns' = [conns EXCEPT ![fd] = [open |-> FALSE, peer |-> "", node_id |-> ""]]
    /\ UNCHANGED <<deployed_containers, now>>

----------------------------------------------------------------------------
(* coordinator.c: placement *)

(* the first continue of find_best_node's loop, negated *)
node_responsive(node, current_time) ==
    ~(node.state # NODE_CONNECTED \/ (current_time - node.last_heartbeat) > HEARTBEAT_TIMEOUT)

(* node_has_capacity with > for >= *)
node_has_capacity_off_by_one(node) ==
    ~(node.container_count > node.resources.max_containers)

(* the second continue of find_best_node's loop, negated *)
node_has_capacity(node) ==
    ~(node.container_count >= node.resources.max_containers)

(* node_score with the CPU term left out *)
node_score_without_cpu(node) ==
    LET memory_available == 100 - node.resources.memory_usage
        disk_available == 100 - node.resources.disk_usage
        max == node.resources.max_containers
    IN [num |-> (memory_available * 3 + disk_available * 2) * max
                + (max - node.container_count) * 100 * 2,
        den |-> 10 * max]

(* the weighted score, as the rational num/den:                            *)
(*   cpu_available*0.3 + memory_available*0.3 + disk_available*0.2         *)
(*   + (1.0 - container_count/max_containers)*100.0*0.2                    *)
(* with den = 10*max_containers; evaluated only where max_containers > 0   *)
node_score(node) ==
    LET cpu_available == 100 - node.resources.cpu_usage
        memory_available == 100 - node.resources.memory_usage
        disk_available == 100 - node.resources.disk_usage
        max == node.resources.max_containers
    IN [num |-> (cpu_available * 3 + memory_available * 3 + disk_available * 2) * max
                + (max - node.container_count) * 100 * 2,
        den |-> 10 * max]

(* score_greater with >= for > *)
score_greater_or_equal(score, best_score) ==
    score.num * best_score.den >= best_score.num * score.den

(* score > best_score *)
score_greater(score, best_score) ==
    score.num * best_score.den > best_score.num * score.den

(* best_score = -1.0 *)
InitialBestScore == [num |-> -1, den |-> 1]

RECURSIVE best_node_loop(_, _, _, _)
best_node_loop(i, best_node, best_score, current_time) ==
    IF i > Len(nodes) THEN best_node
    ELSE IF ~node_responsive(nodes[i], current_time)
         THEN best_node_loop(i + 1, best_node, best_score, current_time)
    ELSE IF ~node_has_capacity(nodes[i])
         THEN best_node_loop(i + 1, best_node, best_score, current_time)
    ELSE IF score_greater(node_score(nodes[i]), best_score)
         THEN best_node_loop(i + 1, i, node_score(nodes[i]), current_time)
    ELSE best_node_loop(i + 1, best_node, best_score, current_time)

(* find_best_node: the index of the chosen record, NULL when none *)
find_best_node == best_node_loop(1, NULL, InitialBestScore, now)

----------------------------------------------------------------------------
(* coordinator.c: the operator's commands *)

NewContainer(node_id, name) ==
    [id |-> ContainerId(node_id, name), name |-> name, node_id |-> node_id,
     state |-> CONTAINER_STARTING]

(* deploy_container: [res, sent, nodes, deployed_containers] *)
deploy_container(node_id, name, netok) ==
    LET i == find_node_by_id(node_id)
        unchanged(res) == [res |-> res, sent |-> NoFrame, nodes |-> nodes,
                           deployed_containers |-> deployed_containers]
    IN IF i = NULL THEN unchanged("NodeNotFound")
       ELSE IF nodes[i].state # NODE_CONNECTED THEN unchanged("NotConnected")
       ELSE IF send_message(nodes[i].socket_fd, netok) # 0 THEN unchanged("SendFailed")
       ELSE IF Len(deployed_containers) < MaxContainers
            THEN [res |-> "OK", sent |-> "DEPLOY_CONTAINER",
                  deployed_containers |->
                      Append(deployed_containers, NewContainer(node_id, name)),
                  nodes |->
                      IF nodes[i].container_count < MaxContainers
                      THEN [nodes EXCEPT
                              ![i].containers = Append(@, NewContainer(node_id, name)),
                              ![i].container_count = @ + 1]
                      ELSE nodes]
            ELSE [res |-> "OK", sent |-> "DEPLOY_CONTAINER", nodes |-> nodes,
                  deployed_containers |-> deployed_containers]

(* deploy_container_auto that falls back to the first record *)
deploy_container_auto_first_node(name, netok) ==
    LET best_node == find_best_node IN
    IF best_node = NULL
    THEN IF Len(nodes) = 0
         THEN [res |-> "NoSuitableNode", sent |-> NoFrame, nodes |-> nodes,
               deployed_containers |-> deployed_containers]
         ELSE deploy_container(nodes[1].id, name, netok)
    ELSE deploy_container(nodes[best_node].id, name, netok)

(* deploy_container_auto: [res, sent, nodes, deployed_containers] *)
deploy_container_auto(name, netok) ==
    LET best_node == find_best_node IN
    IF best_node = NULL
    THEN [res |-> "NoSuitableNode", sent |-> NoFrame, nodes |-> nodes,
          deployed_containers |-> deployed_containers]
    ELSE deploy_container(nodes[best_node].id, name, netok)

(* coordinator_command_loop: deploy <yaml_file> *)
Deploy(name, netok) ==
    /\ LET r == deploy_container_auto(name, netok)
       IN /\ nodes' = r.nodes
          /\ deployed_containers' = r.deployed_containers
          /\ last' = Outcome("deploy", name, r.res, r.sent)
    /\ UNCHANGED <<conns, now>>

(* start_container and stop_container differ in the frame and the state:   *)
(* [res, sent, deployed_containers]                                        *)
command_container(container_id, frame, state, netok) ==
    LET c == find_container(container_id)
        i == find_node_by_id(deployed_containers[c].node_id)
        unchanged(res) == [res |-> res, sent |-> NoFrame,
                           deployed_containers |-> deployed_containers]
    IN IF c = NULL THEN unchanged("ContainerNotFound")
       ELSE IF i = NULL THEN unchanged("NodeNotFound")
       ELSE IF send_message(nodes[i].socket_fd, netok) # 0 THEN unchanged("SendFailed")
       ELSE [res |-> "OK", sent |-> frame,
             deployed_containers |-> [deployed_containers EXCEPT ![c].state = state]]

start_container(container_id, netok) ==
    command_container(container_id, "START_CONTAINER", CONTAINER_STARTING, netok)

stop_container(container_id, netok) ==
    command_container(container_id, "STOP_CONTAINER", CONTAINER_STOPPING, netok)

(* coordinator_command_loop: start <container_id> *)
Start(container_id, netok) ==
    /\ LET r == start_container(container_id, netok)
       IN /\ deployed_containers' = r.deployed_containers
          /\ last' = Outcome("start", container_id, r.res, r.sent)
    /\ UNCHANGED <<nodes, conns, now>>

(* coordinator_command_loop: stop <container_id> *)
Stop(container_id, netok) ==
    /\ LET r == stop_container(container_id, netok)
       IN /\ deployed_containers' = r.deployed_containers
          /\ last' = Outcome("stop", container_id, r.res, r.sent)
    /\ UNCHANGED <<nodes, conns, now>>

(* remove_from_node with the decrement of container_count forgotten *)
remove_from_node_keeps_count(node, container_id) ==
    LET k == FirstIndex(node.containers, container_id, 1) IN
    IF k # NULL /\ k <= node.container_count
    THEN [node EXCEPT !.containers = RemoveAt(@, k)]
    ELSE node

(* delete_container, the node's list: drop the first entry with that id *)
remove_from_node(node, container_id) ==
    LET k == FirstIndex(node.containers, container_id, 1) IN
    IF k # NULL /\ k <= node.container_count
    THEN [node EXCEPT !.containers = RemoveAt(@, k), !.container_count = @ - 1]
    ELSE node

(* delete_container that sends the frame and leaves the ledger as it was *)
delete_container_keeps_record(container_id, netok) ==
    LET c == find_container(container_id)
        i == find_node_by_id(deployed_containers[c].node_id)
    IN IF c = NULL
       THEN [res |-> "ContainerNotFound", sent |-> NoFrame, nodes |-> nodes,
             deployed_containers |-> deployed_containers]
       ELSE [res |-> "OK",
             sent |-> IF i # NULL /\ send_message(nodes[i].socket_fd, netok) = 0
                      THEN "DELETE_CONTAINER" ELSE NoFrame,
             nodes |-> nodes,
             deployed_containers |-> deployed_containers]

(* delete_container: [res, sent, nodes, deployed_containers] *)
delete_container(container_id, netok) ==
    LET c == find_container(container_id)
        i == find_node_by_id(deployed_containers[c].node_id)
    IN IF c = NULL
       THEN [res |-> "ContainerNotFound", sent |-> NoFrame, nodes |-> nodes,
             deployed_containers |-> deployed_containers]
       ELSE [res |-> "OK",
             sent |-> IF i # NULL /\ send_message(nodes[i].socket_fd, netok) = 0
                      THEN "DELETE_CONTAINER" ELSE NoFrame,
             nodes |-> IF i # NULL
                       THEN [nodes EXCEPT ![i] = remove_from_node(nodes[i], container_id)]
                       ELSE nodes,
             deployed_containers |-> RemoveAt(deployed_containers, c)]

(* coordinator_command_loop: delete <container_id> *)
Delete(container_id, netok) ==
    /\ LET r == delete_container(container_id, netok)
       IN /\ nodes' = r.nodes
          /\ deployed_containers' = r.deployed_containers
          /\ last' = Outcome("delete", container_id, r.res, r.sent)
    /\ UNCHANGED <<conns, now>>

----------------------------------------------------------------------------
(* The worker at the other end of each socket *)
PeerOf(fd) == IF fd = 4 THEN "w1" ELSE "w2"

(* The states a worker reports: handle_start_container sends RUNNING,      *)
(* handle_stop_container sends STOPPED                                     *)
ReportedStates == {CONTAINER_RUNNING, CONTAINER_STOPPED}

(* One resource sample, for the runs that are about the ledger *)
IdleSample == {r \in ResourceSamples : r.cpu_usage = 10}

(* The coordinator with a frozen clock: registry, handlers, ledger *)
Next ==
    \/ \E fd \in Sockets : Accept(fd, PeerOf(fd)) /\ UNCHANGED aux
    \/ \E fd \in Sockets : HandleRegister(fd) /\ UNCHANGED aux
    \/ \E fd \in Sockets, resources \in IdleSample : HandleHeartbeat(fd, resources) /\ UNCHANGED aux
    \/ \E fd \in Sockets, container_id \in ContainerIds, state \in ReportedStates :
           HandleContainerStatus(fd, container_id, state) /\ UNCHANGED aux
    \/ \E fd \in Sockets, type \in {"error", "ack"} : HandleOther(fd, type) /\ UNCHANGED aux
    \/ \E fd \in Sockets : HandleClose(fd) /\ UNCHANGED aux
    \/ \E name \in Names, netok \in BOOLEAN : Deploy(name, netok) /\ UNCHANGED aux
    \/ \E container_id \in ContainerIds, netok \in BOOLEAN : Start(container_id, netok) /\ UNCHANGED aux
    \/ \E container_id \in ContainerIds, netok \in BOOLEAN : Stop(container_id, netok) /\ UNCHANGED aux
    \/ \E container_id \in ContainerIds, netok \in BOOLEAN : Delete(container_id, netok) /\ UNCHANGED aux

Spec == Init /\ [][Next]_vars

(* The coordinator with the clock running: registry, heartbeats, placement *)
TimedNext ==
    \/ Tick /\ UNCHANGED aux
    \/ \E fd \in Sockets : Accept(fd, PeerOf(fd)) /\ UNCHANGED aux
    \/ \E fd \in Sockets : HandleRegister(fd) /\ UNCHANGED aux
    \/ \E fd \in Sockets, resources \in ResourceSamples : HandleHeartbeat(fd, resources) /\ UNCHANGED aux
    \/ \E fd \in Sockets : HandleClose(fd) /\ UNCHANGED aux
    \/ \E name \in Names, netok \in BOOLEAN : Deploy(name, netok) /\ UNCHANGED aux

TimedSpec == Init /\ [][TimedNext]_vars

(* The registry with one worker more than it has room for; any worker may  *)
(* connect on any socket                                                   *)
PeerOrder == <<"w1", "w2", "w3", "w4">>

PeerIds == {PeerOrder[k] : k \in 1 .. (MaxNodes + 1)}

RegistryNext ==
    \/ \E fd \in Sockets, peer \in PeerIds : Accept(fd, peer) /\ UNCHANGED aux
    \/ \E fd \in Sockets : HandleRegister(fd) /\ UNCHANGED aux
    \/ \E fd \in Sockets, resources \in IdleSample : HandleHeartbeat(fd, resources) /\ UNCHANGED aux
    \/ \E fd \in Sockets : HandleClose(fd) /\ UNCHANGED aux

RegistrySpec == Init /\ [][RegistryNext]_vars

(* The handler threads write a worker's record outside nodes_mutex, one    *)
(* field at a time, while the command thread and the other handlers run:   *)
(* the register case and the clean-up taken one shared write at a time     *)
aux_but_pc == <<wire, local_containers, handled, ops, up, worker, codec, mutex, threads>>

(* case MSG_REGISTER_NODE up to the return of register_node *)
RegisterNodeStep(fd) ==
    /\ conns[fd].open /\ pc[fd] = "recv"
    /\ LET sender == conns[fd].peer
           r == register_node(sender)
       IN /\ conns' = [conns EXCEPT ![fd].node_id = sender]
          /\ nodes' = r.nodes
          /\ IF r.ret = 0
             THEN /\ pc' = [pc EXCEPT ![fd] = "set_fd"]
                  /\ last' = Outcome("register_node", sender, "OK", NoFrame)
             ELSE /\ pc' = pc
                  /\ last' = Outcome("register", sender, "MaxNodes", NoFrame)
    /\ UNCHANGED <<deployed_containers, now>>

(* case MSG_REGISTER_NODE: node->socket_fd = client_socket, then the ACK *)
SetSocketStep(fd) ==
    /\ pc[fd] = "set_fd"
    /\ LET node_id == conns[fd].node_id
           i == find_node_by_id(node_id)
       IN /\ nodes' = IF i # NULL THEN [nodes EXCEPT ![i].socket_fd = fd] ELSE nodes
          /\ last' = Outcome("register", node_id, "OK", "ACK")
    /\ pc' = [pc EXCEPT ![fd] = "recv"]
    /\ UNCHANGED <<deployed_containers, conns, now>>

(* the clean-up: node->state = NODE_DISCONNECTED *)
set_state_disconnected(node) == [node EXCEPT !.state = NODE_DISCONNECTED]

(* the clean-up: node->socket_fd = -1 *)
clear_socket_fd(node) == [node EXCEPT !.socket_fd = NoFd]

(* receive_message has failed on a connection whose handler registered a   *)
(* worker the registry holds: the first write of the clean-up              *)
CloseMarkStep(fd) ==
    /\ conns[fd].open /\ pc[fd] = "recv"
    /\ LET node_id == conns[fd].node_id
           i == find_node_by_id(node_id)
       IN /\ node_id # "" /\ i # NULL
          /\ nodes' = [nodes EXCEPT ![i] = set_state_disconnected(nodes[i])]
          /\ last' = Outcome("mark", node_id, "OK", NoFrame)
    /\ pc' = [pc EXCEPT ![fd] = "clear_fd"]
    /\ UNCHANGED <<deployed_containers, conns, now>>

(* the second write of the clean-up, then close(client_socket) *)
CloseClearStep(fd) ==
    /\ pc[fd] = "clear_fd"
    /\ LET node_id == conns[fd].node_id
           i == find_node_by_id(node_id)
       IN /\ nodes' = [nodes EXCEPT ![i] = clear_socket_fd(nodes[i])]
          /\ last' = Outcome("close", node_id, "OK", NoFrame)
    /\ conns' = [conns EXCEPT ![fd] = [open |-> FALSE, peer |-> "", node_id |-> ""]]
    /\ pc' = [pc EXCEPT ![fd] = "recv"]
    /\ UNCHANGED <<deployed_containers, now>>

(* receive_message has failed on a connection that registered no worker *)
CloseUnregistered(fd) ==
    /\ pc[fd] = "recv"
    /\ conns[fd].node_id = "" \/ find_node_by_id(conns[fd].node_id) = NULL
    /\ HandleClose(fd)
    /\ UNCHANGED pc

StepNext ==
    \/ \E fd \in Sockets : Accept(fd, PeerOf(fd)) /\ UNCHANGED aux
    \/ \E fd \in Sockets : RegisterNodeStep(fd) /\ UNCHANGED aux_but_pc
    \/ \E fd \in Sockets : SetSocketStep(fd) /\ UNCHANGED aux_but_pc
    \/ \E fd \in Sockets, resources \in IdleSample :
           pc[fd] = "recv" /\ HandleHeartbeat(fd, resources) /\ UNCHANGED aux
    \/ \E fd \in Sockets : CloseMarkStep(fd) /\ UNCHANGED aux_but_pc
    \/ \E fd \in Sockets : CloseClearStep(fd) /\ UNCHANGED aux_but_pc
    \/ \E fd \in Sockets : CloseUnregistered(fd) /\ UNCHANGED aux_but_pc
    \/ \E name \in Names, netok \in BOOLEAN : Deploy(name, netok) /\ UNCHANGED aux
    \/ \E container_id \in ContainerIds, netok \in BOOLEAN : Start(container_id, netok) /\ UNCHANGED aux
    \/ \E container_id \in ContainerIds, netok \in BOOLEAN : Stop(container_id, netok) /\ UNCHANGED aux

StepSpec == Init /\ [][StepNext]_vars

----------------------------------------------------------------------------
(* worker.c: one worker on its connection, receiving what the coordinator  *)
(* sends it, over a run of at most MaxOps deploy and delete commands       *)

WorkerId == "w1"

WorkerSocket == CHOOSE fd \in Sockets : PeerOf(fd) = WorkerId

(* the lookup loop of handle_start/stop/delete_container: by name *)
RECURSIVE FirstByName(_, _, _)
FirstByName(seq, name, i) ==
    IF i > Len(seq) THEN NULL
    ELSE IF seq[i].name = name THEN i
    ELSE FirstByName(seq, name, i + 1)

(* What a handler of the worker returns: ret, the local list it leaves,   *)
(* whether lxc_destroy_container was called, the stores it made to a       *)
(* container's state (from, to) and the frames it sent itself              *)
Handled(ret, local, destroy, writes, sent) ==
    [ret |-> ret, local |-> local, destroy |-> destroy, writes |-> writes, sent |-> sent]

StatusFrame(name, state) ==
    [type |-> "CONTAINER_STATUS", id |-> ContainerId(WorkerId, name), state |-> state]

(* handle_deploy_container; created is the outcome of lxc_create_container *)
handle_deploy_container(name, created) ==
    IF ~created
    THEN Handled(-1, local_containers, FALSE, <<>>, <<>>)
    ELSE IF Len(local_containers) < MaxContainers
    THEN Handled(0,
                 Append(local_containers,
                        [id |-> ContainerId(WorkerId, name), name |-> name,
                         node_id |-> WorkerId, state |-> CONTAINER_STOPPED]),
                 FALSE, <<[from |-> "none", to |-> CONTAINER_STOPPED]>>, <<>>)
    ELSE Handled(-1, local_containers, FALSE, <<>>, <<>>)

(* handle_start_container; started is the outcome of lxc_start_container *)
handle_start_container(name, started) ==
    LET i == FirstByName(local_containers, name, 1) IN
    IF i = NULL
    THEN Handled(-1, local_containers, FALSE, <<>>, <<>>)
    ELSE IF started
    THEN Handled(0, [local_containers EXCEPT ![i].state = CONTAINER_RUNNING], FALSE,
                 <<[from |-> local_containers[i].state, to |-> CONTAINER_STARTING],
                   [from |-> CONTAINER_STARTING, to |-> CONTAINER_RUNNING]>>,
                 <<StatusFrame(name, CONTAINER_RUNNING)>>)
    ELSE Handled(-1, [local_containers EXCEPT ![i].state = CONTAINER_ERROR], FALSE,
                 <<[from |-> local_containers[i].state, to |-> CONTAINER_STARTING],
                   [from |-> CONTAINER_STARTING, to |-> CONTAINER_ERROR]>>,
                 <<>>)

(* handle_stop_container; stopped is the outcome of lxc_stop_container *)
handle_stop_container(name, stopped) ==
    LET i == FirstByName(local_containers, name, 1) IN
    IF i = NULL
    THEN Handled(-1, local_containers, FALSE, <<>>, <<>>)
    ELSE IF stopped
    THEN Handled(0, [local_containers EXCEPT ![i].state = CONTAINER_STOPPED], FALSE,
                 <<[from |-> local_containers[i].state, to |-> CONTAINER_STOPPING],
                   [from |-> CONTAINER_STOPPING, to |-> CONTAINER_STOPPED]>>,
                 <<StatusFrame(name, CONTAINER_STOPPED)>>)
    ELSE Handled(-1, [local_containers EXCEPT ![i].state = CONTAINER_ERROR], FALSE,
                 <<[from |-> local_containers[i].state, to |-> CONTAINER_STOPPING],
                   [from |-> CONTAINER_STOPPING, to |-> CONTAINER_ERROR]>>,
                 <<>>)

(* handle_delete_container; destroy says whether lxc_destroy_container was *)
(* called, destroyed is its outcome                                        *)
handle_delete_container(name, destroyed) ==
    LET i == FirstByName(local_containers, name, 1) IN
    IF i = NULL
    THEN Handled(-1, local_containers, FALSE, <<>>, <<>>)
    ELSE Handled(IF destroyed THEN 0 ELSE -1, RemoveAt(local_containers, i), TRUE,
                 <<>>, <<>>)

(* the frame types message_handler_thread has a case for *)
WorkerCases == {"DEPLOY_CONTAINER", "START_CONTAINER", "STOP_CONTAINER",
                "DELETE_CONTAINER"}

(* message_handler_thread, one turn of its loop: the frame is handled and, *)
(* in the four cases, answered by ACK or ERROR (a reply the coordinator's  *)
(* handler only logs); a frame of any other type is logged                 *)
WorkerReceive(runtime_ok) ==
    /\ wire # <<>>
    /\ LET m == Head(wire)
           r == CASE m.type = "DEPLOY_CONTAINER" ->
                         handle_deploy_container(m.name, runtime_ok)
                  [] m.type = "START_CONTAINER" ->
                         handle_start_container(m.name, runtime_ok)
                  [] m.type = "STOP_CONTAINER" ->
                         handle_stop_container(m.name, runtime_ok)
                  [] m.type = "DELETE_CONTAINER" ->
                         handle_delete_container(m.name, runtime_ok)
                  [] OTHER -> Handled(0, local_containers, FALSE, <<>>, <<>>)
           replies == IF m.type \in WorkerCases
                      THEN r.sent \o <<[type |-> IF r.ret = 0 THEN "ACK" ELSE "ERROR"]>>
                      ELSE <<>>
       IN /\ local_containers' = r.local
          /\ handled' = Append(handled, [type |-> m.type, name |-> m.name,
                                         ret |-> r.ret, destroy |-> r.destroy,
                                         writes |-> r.writes, replies |-> replies])
          /\ up' = up \o replies
          /\ last' = Outcome(m.type, m.name, IF r.ret = 0 THEN "OK" ELSE "Failed",
                             IF m.type \notin WorkerCases THEN NoFrame
                             ELSE IF r.ret = 0 THEN "ACK" ELSE "ERROR")
    /\ wire' = Tail(wire)
    /\ UNCHANGED <<nodes, deployed_containers, conns, now, pc, ops, worker, codec, mutex, threads>>

(* handle_client_connection, one turn of its loop on the worker's          *)
(* connection: the next frame the worker sent is received and dispatched   *)
CoordinatorReceive(fd) ==
    /\ up # <<>>
    /\ LET m == Head(up)
       IN CASE m.type = "CONTAINER_STATUS" -> HandleContainerStatus(fd, m.id, m.state)
            [] m.type = "NODE_HEARTBEAT" -> HandleHeartbeat(fd, m.resources)
            [] m.type = "ACK" -> HandleOther(fd, "ack")
            [] m.type = "ERROR" -> HandleOther(fd, "error")
            [] m.type = "REGISTER_NODE" -> HandleRegister(fd)
    /\ up' = Tail(up)
    /\ wire' = IF Head(up).type = "REGISTER_NODE" /\ last'.sent = "ACK"
               THEN Append(wire, [type |-> "ACK", name |-> ""])
               ELSE wire
    /\ UNCHANGED <<pc, local_containers, handled, ops, worker, codec, mutex, threads>>

(* the records of the ledger that carry an id *)
RecordsWithId(container_id) ==
    Cardinality({c \in 1 .. Len(deployed_containers) :
                    deployed_containers[c].id = container_id})

(* the operator's deploy, noted in the history, with its frame on the wire *)
OpDeploy(name, netok) ==
    /\ Len(ops) < MaxOps
    /\ Deploy(name, netok)
    /\ LET made == IF Len(deployed_containers') > Len(deployed_containers)
                   THEN deployed_containers'[Len(deployed_containers')].id
                   ELSE ""
       IN ops' = Append(ops, [op |-> "deploy", id |-> made, res |-> last'.res,
                              sent |-> last'.sent, before |-> RecordsWithId(made)])
    /\ wire' = IF last'.sent = NoFrame THEN wire
               ELSE Append(wire, [type |-> last'.sent, name |-> name])
    /\ UNCHANGED <<pc, local_containers, handled, up, worker, codec, mutex, threads>>

(* the operator's start or stop, noted in the history, with its frame *)
OpStartStop(op, container_id, netok) ==
    /\ Len(ops) < MaxOps
    /\ IF op = "start" THEN Start(container_id, netok) ELSE Stop(container_id, netok)
    /\ ops' = Append(ops, [op |-> op, id |-> container_id, res |-> last'.res,
                           sent |-> last'.sent,
                           before |-> RecordsWithId(container_id)])
    /\ wire' = IF last'.sent = NoFrame THEN wire
               ELSE Append(wire, [type |-> last'.sent,
                                  name |-> deployed_containers[find_container(container_id)].name])
    /\ UNCHANGED <<pc, local_containers, handled, up, worker, codec, mutex, threads>>

(* the operator's delete, noted in the history, with its frame on the wire *)
OpDelete(container_id, netok) ==
    /\ Len(ops) < MaxOps
    /\ Delete(container_id, netok)
    /\ ops' = Append(ops, [op |-> "delete", id |-> container_id, res |-> last'.res,
                           sent |-> last'.sent,
                           before |-> RecordsWithId(container_id)])
    /\ wire' = IF last'.sent = NoFrame THEN wire
               ELSE Append(wire, [type |-> last'.sent,
                                  name |-> deployed_containers[find_container(container_id)].name])
    /\ UNCHANGED <<pc, local_containers, handled, up, worker, codec, mutex, threads>>

WorkerNext ==
    \/ Accept(WorkerSocket, WorkerId) /\ UNCHANGED aux
    \/ HandleRegister(WorkerSocket) /\ UNCHANGED aux
    \/ \E resources \in IdleSample : HandleHeartbeat(WorkerSocket, resources) /\ UNCHANGED aux
    \/ \E name \in Names, netok \in BOOLEAN : OpDeploy(name, netok)
    \/ \E container_id \in ContainerIds, netok \in BOOLEAN : OpDelete(container_id, netok)
    \/ \E op \in {"start", "stop"}, container_id \in ContainerIds, netok \in BOOLEAN :
           OpStartStop(op, container_id, netok)
    \/ \E runtime_ok \in BOOLEAN : WorkerReceive(runtime_ok)
    \/ CoordinatorReceive(WorkerSocket)

WorkerSpec == Init /\ [][WorkerNext]_vars

----------------------------------------------------------------------------
(* worker.c: message_handler_thread step by step.  worker.outstanding      *)
(* holds the commands received and not yet answered, each with its stage:  *)
(* "received" until its handler has returned, "handled" until its reply    *)
(* has been sent.                                                          *)

(* what the handler of a frame returns *)
HandlerResult(m, runtime_ok) ==
    CASE m.type = "DEPLOY_CONTAINER" -> handle_deploy_container(m.name, runtime_ok)
      [] m.type = "START_CONTAINER" -> handle_start_container(m.name, runtime_ok)
      [] m.type = "STOP_CONTAINER" -> handle_stop_container(m.name, runtime_ok)
      [] m.type = "DELETE_CONTAINER" -> handle_delete_container(m.name, runtime_ok)
      [] OTHER -> Handled(0, local_containers, FALSE, <<>>, <<>>)

(* a thread per command: the next frame is taken while others are open *)
WorkerBegin_task_per_command ==
    /\ wire # <<>>
    /\ worker' = [worker EXCEPT !.outstanding =
                      Append(@, [type |-> Head(wire).type, name |-> Head(wire).name,
                                 stage |-> "received", ret |-> 0])]
    /\ wire' = Tail(wire)
    /\ UNCHANGED <<cvars, pc, local_containers, handled, ops, up, codec, mutex, threads>>

(* receive_message at the top of the loop returns a frame; the loop is     *)
(* back there only when the frame before has been answered                 *)
WorkerBegin ==
    /\ worker.outstanding = <<>>
    /\ wire # <<>>
    /\ worker' = [worker EXCEPT !.outstanding =
                      Append(@, [type |-> Head(wire).type, name |-> Head(wire).name,
                                 stage |-> "received", ret |-> 0])]
    /\ wire' = Tail(wire)
    /\ UNCHANGED <<cvars, pc, local_containers, handled, ops, up, codec, mutex, threads>>

(* a handler call that acknowledges the command before it runs *)
WorkerRun_acks_first(runtime_ok) ==
    /\ worker.outstanding # <<>>
    /\ Head(worker.outstanding).stage = "received"
    /\ LET m == Head(worker.outstanding)
           r == HandlerResult(m, runtime_ok)
       IN /\ local_containers' = r.local
          /\ up' = up \o <<[type |-> "ACK"]>> \o r.sent
          /\ handled' = Append(handled, [type |-> m.type, name |-> m.name,
                                         ret |-> r.ret, destroy |-> r.destroy,
                                         writes |-> r.writes,
                                         replies |-> <<[type |-> "ACK"]>> \o r.sent])
          /\ worker' = [worker EXCEPT !.outstanding[1].stage = "handled",
                                      !.outstanding[1].ret = r.ret]
    /\ UNCHANGED <<cvars, pc, wire, ops, codec, mutex, threads>>

(* the switch of message_handler_thread calls the handler of the frame:    *)
(* the local list is updated, the driver is called and the handler sends   *)
(* its CONTAINER_STATUS before it returns                                  *)
WorkerRun(runtime_ok) ==
    /\ worker.outstanding # <<>>
    /\ Head(worker.outstanding).stage = "received"
    /\ LET m == Head(worker.outstanding)
           r == HandlerResult(m, runtime_ok)
       IN /\ local_containers' = r.local
          /\ up' = up \o r.sent
          /\ handled' = Append(handled, [type |-> m.type, name |-> m.name,
                                         ret |-> r.ret, destroy |-> r.destroy,
                                         writes |-> r.writes, replies |-> r.sent])
          /\ worker' = [worker EXCEPT !.outstanding[1].stage = "handled",
                                      !.outstanding[1].ret = r.ret]
    /\ UNCHANGED <<cvars, pc, wire, ops, codec, mutex, threads>>

(* after the handler has returned: MSG_ACK on 0, MSG_ERROR otherwise; a    *)
(* frame of another type gets no reply                                     *)
WorkerReply ==
    /\ worker.outstanding # <<>>
    /\ Head(worker.outstanding).stage = "handled"
    /\ LET m == Head(worker.outstanding)
           reply == IF m.type \in WorkerCases
                    THEN <<[type |-> IF m.ret = 0 THEN "ACK" ELSE "ERROR"]>>
                    ELSE <<>>
       IN /\ up' = up \o reply
          /\ handled' = [handled EXCEPT ![Len(handled)].replies = @ \o reply]
    /\ worker' = [worker EXCEPT !.outstanding = Tail(@)]
    /\ UNCHANGED <<cvars, pc, wire, local_containers, ops, codec, mutex, threads>>

DriverNext ==
    \/ Accept(WorkerSocket, WorkerId) /\ UNCHANGED aux
    \/ HandleRegister(WorkerSocket) /\ UNCHANGED aux
    \/ \E resources \in IdleSample : HandleHeartbeat(WorkerSocket, resources) /\ UNCHANGED aux
    \/ \E name \in Names, netok \in BOOLEAN :
           Len(ops) < MaxCommands + 2 /\ OpDeploy(name, netok)
    \/ \E op \in {"start", "stop"}, container_id \in ContainerIds, netok \in BOOLEAN :
           Len(ops) < MaxCommands + 2 /\ OpStartStop(op, container_id, netok)
    \/ \E container_id \in ContainerIds, netok \in BOOLEAN :
           Len(ops) < MaxCommands + 2 /\ OpDelete(container_id, netok)
    \/ WorkerBegin
    \/ \E runtime_ok \in BOOLEAN : WorkerRun(runtime_ok)
    \/ WorkerReply
    \/ CoordinatorReceive(WorkerSocket)

DriverSpec == Init /\ [][DriverNext]_vars

(* worker.c, the worker process from main to its exit: connect, register,  *)
(* the heartbeat thread and the message handler thread, main's two joins   *)
(* and the signal handler.  worker.pc is where main stands, rx and hb say  *)
(* whether the two threads are in their loops, io_error whether a send or  *)
(* a receive on the coordinator's connection has failed.                   *)


Exited(code) ==
    [worker EXCEPT !.pc = "exited", !.rx = FALSE, !.hb = FALSE, !.exit_code = code]

(* main: init_worker_node; the coordinator's accept loop takes the         *)
(* connection, a failed connect ends main with 1                           *)
init_worker_node(connected) ==
    /\ worker.pc = "init"
    /\ IF connected
       THEN /\ Accept(WorkerSocket, WorkerId)
            /\ worker' = [worker EXCEPT !.pc = "connected",
                                       !.coordinator_socket = WorkerSocket]
       ELSE /\ worker' = Exited("1")
            /\ UNCHANGED cvars
    /\ UNCHANGED <<pc, wire, local_containers, handled, ops, up, codec, mutex, threads>>

(* register_with_coordinator, the send of REGISTER_NODE; on failure main   *)
(* closes the socket and returns 1                                         *)
register_send(netok) ==
    /\ worker.pc = "connected"
    /\ IF netok
       THEN /\ up' = Append(up, [type |-> "REGISTER_NODE"])
            /\ worker' = [worker EXCEPT !.pc = "wait_ack"]
       ELSE /\ up' = up
            /\ worker' = [Exited("1") EXCEPT !.io_error = TRUE,
                                             !.coordinator_socket = NoFd]
    /\ UNCHANGED <<cvars, pc, wire, local_containers, handled, ops, codec, mutex, threads>>

(* register_with_coordinator, the blocking receive_message for the         *)
(* acknowledgment: it returns when a frame is there or when recv fails;    *)
(* on MSG_ACK main starts the two threads, otherwise main returns 1        *)
register_receive(recv_ok) ==
    /\ worker.pc = "wait_ack"
    /\ IF recv_ok
       THEN /\ wire # <<>>
            /\ wire' = Tail(wire)
            /\ worker' = IF Head(wire).type = "ACK"
                         THEN [worker EXCEPT !.pc = "run", !.rx = TRUE, !.hb = TRUE]
                         ELSE [Exited("1") EXCEPT !.coordinator_socket = NoFd]
       ELSE /\ wire' = wire
            /\ worker' = [Exited("1") EXCEPT !.io_error = TRUE,
                                             !.coordinator_socket = NoFd]
    /\ UNCHANGED <<cvars, pc, local_containers, handled, ops, up, codec, mutex, threads>>

(* heartbeat_thread, one turn of its loop: a failed send is a warning, the *)
(* loop goes on                                                            *)
heartbeat_thread(netok) ==
    /\ worker.hb
    /\ worker.coordinator_socket >= 0
    /\ IF netok
       THEN /\ Len(up) < MaxUp
            /\ up' = Append(up, [type |-> "NODE_HEARTBEAT",
                                 resources |-> CHOOSE r \in IdleSample : TRUE])
            /\ worker' = worker
       ELSE /\ up' = up
            /\ worker' = [worker EXCEPT !.io_error = TRUE]
    /\ UNCHANGED <<cvars, pc, wire, local_containers, handled, ops, codec, mutex, threads>>

(* message_handler_thread, one turn of its loop with a frame received *)
message_handler_thread(runtime_ok) ==
    /\ worker.rx
    /\ worker.coordinator_socket >= 0
    /\ WorkerReceive(runtime_ok)

(* message_handler_thread, receive_message fails: the loop is left and the *)
(* thread returns                                                          *)
message_handler_lost ==
    /\ worker.rx
    /\ worker' = [worker EXCEPT !.rx = FALSE, !.io_error = TRUE]
    /\ UNCHANGED <<cvars, pc, wire, local_containers, handled, ops, up, codec, mutex, threads>>

(* main: pthread_join(message_tid), then pthread_join(heartbeat_tid), then *)
(* close and return 0                                                      *)
main_join ==
    /\ IF worker.pc = "run"
       THEN /\ ~worker.rx
            /\ worker' = [worker EXCEPT !.pc = "join_heartbeat"]
       ELSE /\ worker.pc = "join_heartbeat"
            /\ ~worker.hb
            /\ worker' = [Exited("0") EXCEPT !.coordinator_socket = NoFd]
    /\ UNCHANGED <<cvars, pc, wire, local_containers, handled, ops, up, codec, mutex, threads>>

(* worker_cleanup, the handler of SIGINT and SIGTERM *)
worker_cleanup ==
    /\ worker.pc \notin {"init", "exited"}
    /\ worker' = [Exited("0") EXCEPT !.coordinator_socket = NoFd]
    /\ UNCHANGED <<cvars, pc, wire, local_containers, handled, ops, up, codec, mutex, threads>>

(* handle_client_connection on the worker's connection, receive_message    *)
(* returns 0 bytes after the worker's process has ended                    *)
PeerClosed ==
    /\ worker.pc = "exited"
    /\ HandleClose(WorkerSocket)
    /\ UNCHANGED aux

(* a frame of a type message_handler_thread has no case for reaches the    *)
(* worker                                                                  *)
UnhandledFrameArrives(type) ==
    /\ worker.rx
    /\ Len(wire) + Len(handled) < MaxCommands + 1
    /\ wire' = Append(wire, [type |-> type, name |-> ""])
    /\ UNCHANGED <<cvars, pc, local_containers, handled, ops, up, worker, codec, mutex, threads>>

(* the other workers of the cluster, on the second connection *)
OtherSocket == CHOOSE fd \in Sockets : fd # WorkerSocket

OtherWorker ==
    \/ \E peer \in PeerIds \ {WorkerId} : Accept(OtherSocket, peer) /\ UNCHANGED aux
    \/ HandleRegister(OtherSocket) /\ UNCHANGED aux
    \/ HandleClose(OtherSocket) /\ UNCHANGED aux

LifeNext ==
    \/ \E connected \in BOOLEAN : init_worker_node(connected)
    \/ \E netok \in BOOLEAN : register_send(netok)
    \/ \E recv_ok \in BOOLEAN : register_receive(recv_ok)
    \/ \E netok \in BOOLEAN : heartbeat_thread(netok)
    \/ \E runtime_ok \in BOOLEAN : message_handler_thread(runtime_ok)
    \/ message_handler_lost
    \/ main_join
    \/ worker_cleanup
    \/ PeerClosed
    \/ CoordinatorReceive(WorkerSocket)
    \/ OtherWorker
    \/ \E name \in Names, netok \in BOOLEAN :
           Len(ops) < MaxCommands /\ OpDeploy(name, netok)
    \/ UnhandledFrameArrives("NODE_HEARTBEAT")

(* What runs whenever it can: the worker's main and its two threads, and   *)
(* the coordinator's handler of the worker's connection.  The operator,    *)
(* the signals, the network's failures and the other workers are free.     *)
LifeFair ==
    /\ WF_vars(register_send(TRUE))
    /\ WF_vars(register_receive(TRUE))
    /\ WF_vars(\E netok \in BOOLEAN : heartbeat_thread(netok))
    /\ WF_vars(\E runtime_ok \in BOOLEAN : message_handler_thread(runtime_ok))
    /\ WF_vars(main_join)
    /\ WF_vars(CoordinatorReceive(WorkerSocket))
    /\ WF_vars(PeerClosed)

LifeSpec == Init /\ [][LifeNext]_vars /\ LifeFair

(* coordinator.c: find_best_node as the operator's deploy calls it, with   *)
(* the lxc_config_t parsed from the YAML file                              *)

ConfigNames == {"web", "db"}

(* lxc_config_t: name, cpu_limit, memory_limit *)
Configs == [name : ConfigNames, cpu_limit : {1, 4}, memory_limit : {128, 1024}]

(* a placement that passes over every node when the spec asks for more     *)
(* than one CPU                                                            *)
find_best_node_by_request(config) ==
    IF config.cpu_limit > 1 THEN NULL ELSE find_best_node

(* find_best_node(config): config, which the command loop never passes as  *)
(* NULL, is tested against NULL and its name is printed; nothing else of   *)
(* it is read                                                              *)
find_best_node_for(config) ==
    find_best_node

PlacedOn(best_node) == IF best_node = NULL THEN "none" ELSE nodes[best_node].id

(* one call of find_best_node *)
FindBestNode(config) ==
    /\ last' = Outcome("place", config.name, PlacedOn(find_best_node_for(config)), NoFrame)
    /\ UNCHANGED <<nodes, deployed_containers, conns, now>>

PlacementNext ==
    \/ \E fd \in Sockets : Accept(fd, PeerOf(fd)) /\ UNCHANGED aux
    \/ \E fd \in Sockets : HandleRegister(fd) /\ UNCHANGED aux
    \/ \E fd \in Sockets, resources \in ResourceSamples :
           HandleHeartbeat(fd, resources) /\ UNCHANGED aux
    \/ \E fd \in Sockets : HandleClose(fd) /\ UNCHANGED aux
    \/ \E name \in Names, netok \in BOOLEAN : Deploy(name, netok) /\ UNCHANGED aux
    \/ \E config \in Configs : FindBestNode(config) /\ UNCHANGED aux

PlacementSpec == Init /\ [][PlacementNext]_vars

(* network.c: unregister_node, which no command of the coordinator calls;  *)
(* here an administrator calls it                                          *)

(* unregister_node: [ret, nodes, closed]; closed is the descriptor it      *)
(* closes, NoFd when it closes none                                        *)
unregister_node(node_id) ==
    LET i == find_node_by_id(node_id) IN
    IF i = NULL THEN [ret |-> -1, nodes |-> nodes, closed |-> NoFd]
    ELSE [ret |-> 0, nodes |-> RemoveAt(nodes, i),
          closed |-> IF nodes[i].socket_fd > 0 THEN nodes[i].socket_fd ELSE NoFd]

(* one call of unregister_node.  The handler thread of the descriptor it   *)
(* closes is in recv on it: the recv fails and the thread ends, finding no *)
(* record to mark (handler_ends), or the recv goes on                      *)
Unregister(node_id, handler_ends) ==
    /\ LET r == unregister_node(node_id)
       IN /\ nodes' = r.nodes
          /\ last' = Outcome("unregister", node_id,
                             IF r.ret = 0 THEN "OK" ELSE "NodeNotFound", NoFrame)
          /\ conns' = IF handler_ends /\ r.closed \in Sockets
                      THEN [conns EXCEPT ![r.closed] =
                                [open |-> FALSE, peer |-> "", node_id |-> ""]]
                      ELSE conns
    /\ UNCHANGED <<deployed_containers, now>>

EvictNext ==
    \/ \E fd \in Sockets : Accept(fd, PeerOf(fd)) /\ UNCHANGED aux
    \/ \E fd \in Sockets : HandleRegister(fd) /\ UNCHANGED aux
    \/ \E fd \in Sockets, resources \in IdleSample :
           HandleHeartbeat(fd, resources) /\ UNCHANGED aux
    \/ \E fd \in Sockets : HandleClose(fd) /\ UNCHANGED aux
    \/ \E name \in Names, netok \in BOOLEAN : Deploy(name, netok) /\ UNCHANGED aux
    \/ \E node_id \in NodeIds, handler_ends \in BOOLEAN :
           Unregister(node_id, handler_ends) /\ UNCHANGED aux

EvictSpec == Init /\ [][EvictNext]_vars

(* coordinator.c and network.c with their two mutexes.  Each thread goes   *)
(* through its operation one lock, one unlock, one send or one unlocked    *)
(* store at a time; mutex says which thread owns nodes_mutex and           *)
(* containers_mutex ("none": free).  A node_t* a thread holds is the       *)
(* record of that id: records are only ever appended here.                 *)

lock_unchanged == <<now, last, pc, wire, local_containers, handled, ops, up, worker, codec>>

Acquire(name, t) == [mutex EXCEPT ![name] = t]
Release(name) == [mutex EXCEPT ![name] = "none"]

Goto(t, pc_) == [threads EXCEPT ![t].pc = pc_]
Return(t) == [threads EXCEPT ![t] = Idle]
Closed(fd) == [conns EXCEPT ![fd] = [open |-> FALSE, peer |-> "", node_id |-> ""]]

(* handle_client_connection: receive_message returns a frame of that kind, *)
(* or fails ("close"); a handler that never registered closes at once      *)
HandlerReceive(fd, kind) ==
    LET t == ThreadOf(fd) IN
    /\ conns[fd].open
    /\ threads[t].pc = "idle"
    /\ IF kind = "close" /\ conns[fd].node_id = ""
       THEN /\ conns' = Closed(fd)
            /\ threads' = threads
       ELSE /\ conns' = IF kind = "register"
                        THEN [conns EXCEPT ![fd].node_id = conns[fd].peer]
                        ELSE conns
            /\ threads' = [threads EXCEPT ![t] =
                              [Idle EXCEPT !.pc = "lock", !.op = kind,
                                           !.id = IF kind = "close" THEN conns[fd].node_id
                                                  ELSE conns[fd].peer]]
    /\ UNCHANGED <<nodes, deployed_containers, mutex, lock_unchanged>>

(* pthread_mutex_lock(&nodes_mutex) in register_node and find_node_by_id *)
HandlerLock(fd) ==
    LET t == ThreadOf(fd) IN
    /\ threads[t].pc = "lock"
    /\ mutex.nodes_mutex = "none"
    /\ mutex' = Acquire("nodes_mutex", t)
    /\ threads' = Goto(t, "locked")
    /\ UNCHANGED <<nodes, deployed_containers, conns, lock_unchanged>>

(* the body of register_node or of find_node_by_id, up to its unlock *)
HandlerUnlock(fd) ==
    LET t == ThreadOf(fd)
        id == threads[t].id
        op == threads[t].op
        r == register_node(id)
        i == find_node_by_id(id)
    IN /\ threads[t].pc = "locked"
       /\ mutex' = Release("nodes_mutex")
       /\ nodes' = IF op = "register" THEN r.nodes ELSE nodes
       /\ threads' = IF op = "register"
                     THEN IF r.ret = 0
                          THEN [threads EXCEPT ![t].pc = "lock", ![t].op = "attach"]
                          ELSE Return(t)
                     ELSE IF i = NULL THEN Return(t) ELSE Goto(t, "store")
       /\ conns' = IF op = "close" /\ i = NULL THEN Closed(fd) ELSE conns
       /\ UNCHANGED <<deployed_containers, lock_unchanged>>

(* the stores through the node_t* that find_node_by_id returned, made      *)
(* after its unlock: socket_fd (then the ACK is sent), the heartbeat's     *)
(* fields, a container's state, the fields of the cleanup                  *)
HandlerStore(fd, resources, container_id, state) ==
    LET t == ThreadOf(fd)
        id == threads[t].id
        op == threads[t].op
        i == find_node_by_id(id)
    IN /\ threads[t].pc = "store"
       /\ nodes' = [nodes EXCEPT ![i] =
                       CASE op = "attach" -> [@ EXCEPT !.socket_fd = fd]
                         [] op = "heartbeat" -> heartbeat_update(@, resources)
                         [] op = "status" -> status_update(@, container_id, state)
                         [] op = "close" -> mark_disconnected(@)]
       /\ conns' = IF op = "close" THEN Closed(fd) ELSE conns
       /\ threads' = Return(t)
       /\ UNCHANGED <<deployed_containers, mutex, lock_unchanged>>

(* coordinator_command_loop reads a command *)
OpCommand(op, id) ==
    /\ threads["main"].pc = "idle"
    /\ threads' = [threads EXCEPT !["main"] =
                      [Idle EXCEPT !.pc = IF op = "deploy" THEN "best_lock"
                                          ELSE "lock_containers",
                                   !.op = op, !.id = id]]
    /\ UNCHANGED <<nodes, deployed_containers, conns, mutex, lock_unchanged>>

(* pthread_mutex_lock(&nodes_mutex) in find_best_node and find_node_by_id *)
OpLockNodes ==
    /\ threads["main"].pc \in {"best_lock", "find_lock"}
    /\ mutex.nodes_mutex = "none"
    /\ mutex' = Acquire("nodes_mutex", "main")
    /\ threads' = Goto("main", IF threads["main"].pc = "best_lock" THEN "best_locked"
                               ELSE "find_locked")
    /\ UNCHANGED <<nodes, deployed_containers, conns, lock_unchanged>>

(* what follows the unlock of find_best_node and of find_node_by_id:       *)
(* [threads, mutex]                                                        *)
AfterLookup(released) ==
    LET m == threads["main"]
        best == find_best_node
        i == find_node_by_id(m.node)
        done(mtx) == [threads |-> Return("main"), mutex |-> mtx]
        on(pc_) == [threads |-> Goto("main", pc_), mutex |-> released]
    IN IF m.pc = "best_locked"
       THEN IF best = NULL THEN done(released)
            ELSE [threads |-> [threads EXCEPT !["main"].pc = "find_lock",
                                              !["main"].node = nodes[best].id],
                  mutex |-> released]
       ELSE IF m.op = "deploy"
       THEN IF i = NULL THEN done(released)
            ELSE IF nodes[i].state # NODE_CONNECTED THEN done(released)
            ELSE on("send")
       ELSE IF i = NULL
       THEN IF m.op = "delete" THEN on("store")
            ELSE done([released EXCEPT !.containers_mutex = "none"])
       ELSE on("send")

(* the lookup that never gives nodes_mutex back *)
OpUnlockNodes_keeps_mutex ==
    /\ threads["main"].pc \in {"best_locked", "find_locked"}
    /\ LET r == AfterLookup(mutex)
       IN /\ threads' = r.threads
          /\ mutex' = r.mutex
    /\ UNCHANGED <<nodes, deployed_containers, conns, lock_unchanged>>

(* the loop of find_best_node or of find_node_by_id, and its unlock *)
OpUnlockNodes ==
    /\ threads["main"].pc \in {"best_locked", "find_locked"}
    /\ LET r == AfterLookup(Release("nodes_mutex"))
       IN /\ threads' = r.threads
          /\ mutex' = r.mutex
    /\ UNCHANGED <<nodes, deployed_containers, conns, lock_unchanged>>

(* pthread_mutex_lock(&containers_mutex): the first statement of start,    *)
(* stop and delete, and in deploy_container after the send                 *)
OpLockContainers ==
    /\ threads["main"].pc = "lock_containers"
    /\ mutex.containers_mutex = "none"
    /\ mutex' = Acquire("containers_mutex", "main")
    /\ threads' = Goto("main", IF threads["main"].op = "deploy" THEN "store" ELSE "search")
    /\ UNCHANGED <<nodes, deployed_containers, conns, lock_unchanged>>

(* the search loop of start, stop and delete *)
OpSearch ==
    LET m == threads["main"]
        c == find_container(m.id)
    IN /\ m.pc = "search"
       /\ IF c = NULL
          THEN /\ mutex' = Release("containers_mutex")
               /\ threads' = Return("main")
          ELSE /\ mutex' = mutex
               /\ threads' = [threads EXCEPT !["main"].pc = "find_lock",
                                             !["main"].node = deployed_containers[c].node_id]
       /\ UNCHANGED <<nodes, deployed_containers, conns, lock_unchanged>>

FrameOfOp(op) ==
    CASE op = "deploy" -> "DEPLOY_CONTAINER" [] op = "start" -> "START_CONTAINER"
      [] op = "stop" -> "STOP_CONTAINER" [] op = "delete" -> "DELETE_CONTAINER"

(* create_message and send_message(node->socket_fd, &msg) *)
OpSend(netok) ==
    LET m == threads["main"]
        i == find_node_by_id(m.node)
        ok == send_message(nodes[i].socket_fd, netok) = 0
    IN /\ m.pc = "send"
       /\ IF ok \/ m.op = "delete"
          THEN /\ threads' = [threads EXCEPT
                                 !["main"].pc = IF m.op = "deploy" THEN "lock_containers"
                                                ELSE "store",
                                 !["main"].sent = IF ok THEN FrameOfOp(m.op) ELSE NoFrame]
               /\ mutex' = mutex
          ELSE /\ threads' = Return("main")
               /\ mutex' = Release("containers_mutex")
       /\ UNCHANGED <<nodes, deployed_containers, conns, lock_unchanged>>

(* the stores under containers_mutex, up to its unlock: deploy's insert    *)
(* into both lists, the state of start and stop, delete's two removals     *)
OpStore ==
    LET m == threads["main"]
        i == find_node_by_id(m.node)
        c == find_container(m.id)
    IN /\ m.pc = "store"
       /\ deployed_containers' =
              CASE m.op = "deploy" ->
                       IF Len(deployed_containers) < MaxContainers
                       THEN Append(deployed_containers, NewContainer(m.node, m.id))
                       ELSE deployed_containers
                [] m.op = "start" -> [deployed_containers EXCEPT ![c].state = CONTAINER_STARTING]
                [] m.op = "stop" -> [deployed_containers EXCEPT ![c].state = CONTAINER_STOPPING]
                [] m.op = "delete" -> RemoveAt(deployed_containers, c)
       /\ nodes' =
              CASE m.op = "deploy" ->
                       IF Len(deployed_containers) < MaxContainers
                          /\ nodes[i].container_count < MaxContainers
                       THEN [nodes EXCEPT
                               ![i].containers = Append(@, NewContainer(m.node, m.id)),
                               ![i].container_count = @ + 1]
                       ELSE nodes
                [] m.op = "delete" ->
                       IF i # NULL
                       THEN [nodes EXCEPT ![i] = remove_from_node(nodes[i], m.id)]
                       ELSE nodes
                [] OTHER -> nodes
       /\ mutex' = Release("containers_mutex")
       /\ threads' = Return("main")
       /\ UNCHANGED <<conns, lock_unchanged>>

(* One worker, which may connect a second time while its first connection  *)
(* still has a handler thread: two handlers and the operator's thread      *)
LockNext ==
    \/ \E fd \in Sockets : Accept(fd, WorkerId) /\ UNCHANGED aux
    \/ \E fd \in Sockets, kind \in {"register", "heartbeat", "status", "close"} :
           HandlerReceive(fd, kind)
    \/ \E fd \in Sockets : HandlerLock(fd)
    \/ \E fd \in Sockets : HandlerUnlock(fd)
    \/ \E fd \in Sockets, resources \in IdleSample, container_id \in ContainerIds,
          state \in ReportedStates :
           HandlerStore(fd, resources, container_id, state)
    \/ \E name \in Names : OpCommand("deploy", name)
    \/ \E op \in {"start", "stop", "delete"}, container_id \in ContainerIds :
           OpCommand(op, container_id)
    \/ OpLockNodes
    \/ OpUnlockNodes
    \/ OpLockContainers
    \/ OpSearch
    \/ \E netok \in BOOLEAN : OpSend(netok)
    \/ OpStore

LockSpec == Init /\ [][LockNext]_vars

(* network.c: create_message, send_message, receive_message.  A message_t  *)
(* is type, sender_id[MAX_NAME_LEN], recipient_id[MAX_NAME_LEN],           *)
(* data_length and data[], sent and received as the bytes of the struct.   *)

Chars == {1, 2}                      \* the bytes of an id, none of them NUL
Bytes == {0, 1}                      \* the bytes of a payload
FrameTypes == {"MSG_DEPLOY_CONTAINER", "MSG_ACK"}

(* the strings of at most n characters *)
Strings(n) == UNION {[1 .. k -> Chars] : k \in 0 .. n}

(* the payloads of at most n bytes *)
Payloads(n) == UNION {[1 .. k -> Bytes] : k \in 0 .. n}

(* memset(msg, 0, ...) of a region of n bytes *)
Zeroed(n) == [k \in 1 .. n |-> 0]

(* strncpy(dst, src, n) into a zeroed dst of NameCap bytes *)
strncpy(src, n) ==
    [k \in 1 .. NameCap |-> IF k <= n /\ k <= Len(src) THEN src[k] ELSE 0]

(* create_message that stores the length it was asked for, not the length  *)
(* it copied                                                               *)
create_message_keeps_length(type, sender_id, recipient_id, data, data_len) ==
    LET copy_len == IF data_len < DataCap THEN data_len ELSE DataCap IN
    [type |-> type,
     sender_id |-> strncpy(sender_id, NameCap - 1),
     recipient_id |-> strncpy(recipient_id, NameCap - 1),
     data_length |-> IF data_len > 0 THEN data_len - 1 ELSE 0,
     data |-> IF data_len > 0
              THEN [k \in 1 .. DataCap |-> IF k <= copy_len THEN data[k] ELSE 0]
              ELSE Zeroed(DataCap)]

(* create_message: the frame built from the arguments *)
create_message(type, sender_id, recipient_id, data, data_len) ==
    LET copy_len == IF data_len < DataCap THEN data_len ELSE DataCap IN
    [type |-> type,
     sender_id |-> strncpy(sender_id, NameCap - 1),
     recipient_id |-> strncpy(recipient_id, NameCap - 1),
     data_length |-> IF data_len > 0 THEN copy_len ELSE 0,
     data |-> IF data_len > 0
              THEN [k \in 1 .. DataCap |-> IF k <= copy_len THEN data[k] ELSE 0]
              ELSE Zeroed(DataCap)]

(* sizeof(message_t), in units of one field or one byte *)
FrameSize == 1 + NameCap + NameCap + 1 + DataCap

(* the struct as send() reads it: its fields in the order of declaration *)
FrameBytes(frame) ==
    <<frame.type>> \o frame.sender_id \o frame.recipient_id
        \o <<frame.data_length>> \o frame.data

(* the struct as recv() has filled it *)
FrameOf(bytes) ==
    [type |-> bytes[1],
     sender_id |-> SubSeq(bytes, 2, 1 + NameCap),
     recipient_id |-> SubSeq(bytes, 2 + NameCap, 1 + 2 * NameCap),
     data_length |-> bytes[2 + 2 * NameCap],
     data |-> SubSeq(bytes, 3 + 2 * NameCap, 2 + 2 * NameCap + DataCap)]

(* a char array read as a C string: the bytes before the first NUL *)
RECURSIVE CString(_)
CString(buffer) ==
    IF buffer = <<>> \/ Head(buffer) = 0 THEN <<>>
    ELSE <<Head(buffer)>> \o CString(Tail(buffer))

(* the messages a caller may ask for: ids that fit a message_t, payloads   *)
(* up to one byte more than the frame holds                                *)
Messages ==
    [type : FrameTypes,
     sender_id : Strings(NameCap - 1) \ {<<>>},
     recipient_id : {<<1>>, <<2, 1>>},
     data : Payloads(DataCap + 1)]

CodecInit ==
    /\ nodes = <<>>
    /\ deployed_containers = <<>>
    /\ conns = [fd \in Sockets |-> [open |-> FALSE, peer |-> "", node_id |-> ""]]
    /\ now = 0
    /\ last = Outcome("init", "", "OK", NoFrame)
    /\ pc = [fd \in Sockets |-> "recv"]
    /\ wire = <<>>
    /\ local_containers = <<>>
    /\ handled = <<>>
    /\ ops = <<>>
    /\ up = <<>>
    /\ worker = NotStarted
    /\ codec \in {[stage |-> "asked", m |-> m] : m \in Messages}
    /\ mutex = Unlocked
    /\ threads = AllIdle

(* the sender calls create_message *)
CodecCreate ==
    /\ codec.stage = "asked"
    /\ codec' = [stage |-> "created", m |-> codec.m,
                 frame |-> create_message(codec.m.type, codec.m.sender_id,
                                          codec.m.recipient_id, codec.m.data,
                                          Len(codec.m.data))]
    /\ last' = Outcome("create_message", "", "OK", NoFrame)

(* send_message: send() has taken bytes_sent bytes of the struct *)
CodecSend(bytes_sent) ==
    /\ codec.stage = "created"
    /\ IF bytes_sent # FrameSize
       THEN /\ codec' = [stage |-> "send_failed", m |-> codec.m]
            /\ last' = Outcome("send_message", "", "Failed", NoFrame)
       ELSE /\ codec' = [stage |-> "sent", m |-> codec.m,
                         bytes |-> FrameBytes(codec.frame)]
            /\ last' = Outcome("send_message", "", "OK", NoFrame)

(* receive_message: recv() has returned bytes_received bytes *)
CodecReceive(bytes_received) ==
    /\ codec.stage = "sent"
    /\ IF bytes_received # FrameSize
       THEN /\ codec' = [stage |-> "receive_failed", m |-> codec.m]
            /\ last' = Outcome("receive_message", "", "Failed", NoFrame)
       ELSE /\ codec' = [stage |-> "received", m |-> codec.m,
                         msg |-> FrameOf(SubSeq(codec.bytes, 1, bytes_received))]
            /\ last' = Outcome("receive_message", "", "OK", NoFrame)

codec_unchanged == <<nodes, deployed_containers, conns, now, pc, wire, local_containers,
                     handled, ops, up, worker, mutex, threads>>

CodecNext ==
    \/ CodecCreate /\ UNCHANGED codec_unchanged
    \/ \E bytes_sent \in {FrameSize - 1, FrameSize} :
           CodecSend(bytes_sent) /\ UNCHANGED codec_unchanged
    \/ \E bytes_received \in {0, FrameSize - 1, FrameSize} :
           CodecReceive(bytes_received) /\ UNCHANGED codec_unchanged

CodecSpec == CodecInit /\ [][CodecNext]_vars

----------------------------------------------------------------------------
(* What the claims speak of *)

NodeIndexes == 1 .. Len(nodes)
LedgerIndexes == 1 .. Len(deployed_containers)

(* get_container_status over a ledger: the state of the first record with  *)
(* that id, CONTAINER_ERROR when there is none                             *)
StatusIn(ledger, container_id) ==
    IF FirstIndex(ledger, container_id, 1) = NULL THEN CONTAINER_ERROR
    ELSE ledger[FirstIndex(ledger, container_id, 1)].state

LedgerCount(node_id) ==
    Cardinality({c \in LedgerIndexes : deployed_containers[c].node_id = node_id})

(* The three placement predicates, at time t *)
Eligible(node, t) ==
    /\ node.state = "CONNECTED"
    /\ node.container_count < node.resources.max_containers
    /\ t - node.last_heartbeat <= 30

EligibleIndexes == {i \in NodeIndexes : Eligible(nodes[i], now)}

(* 10 * max_containers * score, for a node with max_containers > 0 *)
ScoreTimesTenMax(node) ==
    (3 * (100 - node.resources.cpu_usage) + 3 * (100 - node.resources.memory_usage)
       + 2 * (100 - node.resources.disk_usage)) * node.resources.max_containers
    + 200 * (node.resources.max_containers - node.container_count)

(* score(a) < score(b), both with max_containers > 0 *)
ScoreLess(a, b) ==
    ScoreTimesTenMax(a) * b.resources.max_containers
        < ScoreTimesTenMax(b) * a.resources.max_containers

ScoreEqual(a, b) == ~ScoreLess(a, b) /\ ~ScoreLess(b, a)

RECURSIVE PositionIn(_, _, _)
PositionIn(seq, x, i) ==
    IF i > Len(seq) THEN 0 ELSE IF seq[i] = x THEN i ELSE PositionIn(seq, x, i + 1)

(* strcmp(a, b) < 0 on node ids *)
LexLess(a, b) == PositionIn(IdOrder, a, 1) < PositionIn(IdOrder, b, 1)

(* C1: after every coordinator operation, every worker record's            *)
(* container_count equals the number of ledger records whose node_id is    *)
(* that worker's id.                                                       *)
C1_ContainerCountMatchesLedger ==
    \A i \in NodeIndexes : nodes[i].container_count = LedgerCount(nodes[i].id)

(* C1 witness: after deploys, a delete has succeeded and the ledger holds  *)
(* one record, counted by the worker that owns it.                         *)
C1_Witness ==
    /\ last.op = "delete" /\ last.res = "OK"
    /\ \E i \in NodeIndexes : nodes[i].container_count = 1 /\ LedgerCount(nodes[i].id) = 1
    /\ Len(deployed_containers) = 1

LegalTransitions ==
    {<<CONTAINER_STOPPED, CONTAINER_STARTING>>,
     <<CONTAINER_STARTING, CONTAINER_RUNNING>>,
     <<CONTAINER_RUNNING, CONTAINER_STOPPING>>,
     <<CONTAINER_STOPPING, CONTAINER_STOPPED>>}

Legal(from, to) ==
    from = to \/ to = CONTAINER_ERROR \/ <<from, to>> \in LegalTransitions

(* C2: every state change of a container record in the coordinator ledger  *)
(* is a legal transition (STOPPED->STARTING, STARTING->RUNNING|ERROR,       *)
(* RUNNING->STOPPING, STOPPING->STOPPED|ERROR, any->ERROR); a start, stop   *)
(* or status update that would make another transition leaves the state    *)
(* unchanged.  A step of start, stop or status keeps the ledger's length,   *)
(* so position c is the same record before and after.                      *)
C2_LedgerTransitionsLegal ==
    [][last'.op \in {"start", "stop", "status"} =>
          \A c \in LedgerIndexes :
              Legal(deployed_containers[c].state, deployed_containers'[c].state)]_vars

(* C3: in every registry state placement returns no worker that is not     *)
(* CONNECTED, that has container_count >= max_containers or whose          *)
(* last_heartbeat is more than 30 s before the call; when no worker passes *)
(* the three predicates it returns none.                                   *)
C3_PlacementOnlyEligible ==
    /\ find_best_node # NULL => find_best_node \in EligibleIndexes
    /\ EligibleIndexes = {} => find_best_node = NULL

(* C3 witness: a deploy has placed a container while the registry held a   *)
(* CONNECTED worker with a stale heartbeat and a worker at its capacity.   *)
C3_Witness ==
    /\ last.op = "deploy" /\ last.res = "OK"
    /\ \E i \in NodeIndexes :
          nodes[i].state = "CONNECTED" /\ now - nodes[i].last_heartbeat > 30
    /\ \E i \in NodeIndexes :
          /\ nodes[i].state = "CONNECTED"
          /\ nodes[i].resources.max_containers > 0
          /\ nodes[i].container_count >= nodes[i].resources.max_containers

(* C4: whenever some worker is eligible, placement returns an eligible     *)
(* worker whose score 0.30*(100-cpu) + 0.30*(100-mem) + 0.20*(100-disk)    *)
(* + 0.20*(1 - container_count/max_containers)*100, over the resources of  *)
(* the last processed heartbeat, is maximal among the eligible workers.    *)
C4_PlacementMaximalScore ==
    EligibleIndexes # {} =>
        /\ find_best_node \in EligibleIndexes
        /\ \A j \in EligibleIndexes : ~ScoreLess(nodes[find_best_node], nodes[j])

(* C4 witness: two eligible workers, one whose last heartbeat carried      *)
(* cpu_usage = 90 and one with cpu_usage = 10 and the same load before the *)
(* deploy, and the deploy went to the second.                              *)
C4_Witness ==
    /\ last.op = "deploy" /\ last.res = "OK"
    /\ Len(deployed_containers) = 1
    /\ \E i, j \in EligibleIndexes :
          /\ nodes[i].resources.cpu_usage = 90 /\ nodes[i].container_count = 0
          /\ nodes[j].resources.cpu_usage = 10 /\ nodes[j].container_count = 1
          /\ deployed_containers[1].node_id = nodes[j].id

C6_StaleWorkerDisconnected ==
    \A i \in NodeIndexes :
        (/\ nodes[i].state = "CONNECTED"
         /\ nodes[i].socket_fd \in Sockets
         /\ conns[nodes[i].socket_fd].open)
            => now - nodes[i].last_heartbeat <= 30 + 5

(* C7: when the coordinator processes a CONTAINER_STATUS of the owning     *)
(* worker that reports RUNNING for a container the ledger holds in         *)
(* STARTING, the ledger record read by get_container_status becomes        *)
(* RUNNING.                                                                *)
C7_StatusRunningReachesLedger ==
    [][(/\ last'.op = "status" /\ last'.res = "RUNNING"
        /\ StatusIn(deployed_containers, last'.id) = "STARTING")
           => StatusIn(deployed_containers', last'.id) = "RUNNING"]_vars

(* C8: once a worker is marked DISCONNECTED every ledger record whose      *)
(* node_id is that worker has state ERROR.                                 *)
C8_DisconnectedContainersError ==
    \A i \in NodeIndexes :
        nodes[i].state = "DISCONNECTED" =>
            \A c \in LedgerIndexes :
                deployed_containers[c].node_id = nodes[i].id
                    => deployed_containers[c].state = "ERROR"

(* C9: marking a worker disconnected keeps its record in the registry with *)
(* state DISCONNECTED, removes no container record from the ledger and no  *)
(* entry from any worker's container list; the numbers of worker records   *)
(* and of container records are unchanged.                                 *)
C9_DisconnectKeepsRecords ==
    [][(last'.op = "close" /\ last'.res = "OK") =>
          /\ Len(nodes') = Len(nodes)
          /\ deployed_containers' = deployed_containers
          /\ \A i \in NodeIndexes :
                /\ nodes'[i].id = nodes[i].id
                /\ nodes'[i].containers = nodes[i].containers
                /\ nodes'[i].container_count = nodes[i].container_count
                /\ nodes[i].id = last'.id => nodes'[i].state = "DISCONNECTED"]_vars

(* C9 witness: the connection of a worker that holds a container has       *)
(* closed; the worker is DISCONNECTED and still has the container.         *)
C9_Witness ==
    /\ last.op = "close" /\ last.res = "OK"
    /\ \E i \in NodeIndexes :
          /\ nodes[i].id = last.id
          /\ nodes[i].state = "DISCONNECTED"
          /\ nodes[i].container_count >= 1
          /\ LedgerCount(nodes[i].id) >= 1

(* C10: when no worker is eligible, deploy fails (no suitable node), sends *)
(* no DEPLOY_CONTAINER frame and leaves the ledger and every worker's      *)
(* container_count unchanged.                                              *)
C10_NoCapacityNoChange ==
    [][(last'.op = "deploy" /\ EligibleIndexes = {}) =>
          /\ last'.res = "NoSuitableNode"
          /\ last'.sent = NoFrame
          /\ deployed_containers' = deployed_containers
          /\ Len(nodes') = Len(nodes)
          /\ \A i \in NodeIndexes :
                nodes'[i].container_count = nodes[i].container_count]_vars

(* C10 witness: a deploy has failed for want of a node while the only      *)
(* worker is CONNECTED on an open connection, with a fresh heartbeat, and  *)
(* holds as many containers as its max_containers.                         *)
C10_Witness ==
    /\ last.op = "deploy" /\ last.res = "NoSuitableNode"
    /\ Len(nodes) = 1
    /\ nodes[1].state = "CONNECTED"
    /\ nodes[1].socket_fd \in Sockets /\ conns[nodes[1].socket_fd].open
    /\ nodes[1].resources.max_containers > 0
    /\ nodes[1].container_count = nodes[1].resources.max_containers
    /\ Len(deployed_containers) = nodes[1].container_count

(* C12: the ledger holds at most one container record per container id    *)
(* ({node_id}_{name}); a deploy of a (node, name) pair the ledger already  *)
(* holds adds no second record with that id.                               *)
C12_LedgerIdsUnique ==
    \A i, j \in LedgerIndexes :
        i # j => deployed_containers[i].id # deployed_containers[j].id

(* C13: a register with an id the registry already holds succeeds in every *)
(* registry state, a full registry included: the record of that id becomes *)
(* CONNECTED with last_heartbeat = now, every record keeps its id and its  *)
(* place, the number of records is unchanged and the ids stay pairwise     *)
(* distinct.                                                               *)
C13_ReregisterSucceeds ==
    [][(last'.op = "register" /\ find_node_by_id(last'.id) # NULL) =>
          /\ last'.res = "OK"
          /\ Len(nodes') = Len(nodes)
          /\ \A i \in NodeIndexes :
                /\ nodes'[i].id = nodes[i].id
                /\ nodes[i].id = last'.id =>
                      /\ nodes'[i].state = NODE_CONNECTED
                      /\ nodes'[i].last_heartbeat = now'
          /\ \A i, j \in NodeIndexes : i # j => nodes'[i].id # nodes'[j].id]_vars

(* C20: an operator delete takes the container record out of the ledger    *)
(* only once the owning worker's ACK for the DELETE_CONTAINER frame has    *)
(* been received: the delete command itself leaves the ledger as it is     *)
(* (also when the send fails), and the only step that shortens the ledger  *)
(* is the receipt of an ACK.                                               *)
C20_DeleteWaitsForAck ==
    [][/\ last'.op = "delete" => deployed_containers' = deployed_containers
       /\ Len(deployed_containers') < Len(deployed_containers) =>
              last'.op = "ack"]_vars

(* C15: processing a NODE_HEARTBEAT from a registered worker sets the      *)
(* record's last_heartbeat to now, replaces its resources by those of the  *)
(* frame and makes it CONNECTED, except that a record in state ERROR stays *)
(* in ERROR; every other record is untouched, and a heartbeat whose sender *)
(* is not in the registry leaves the registry as it is.                    *)
C15_HeartbeatUpdates ==
    [][\A fd \in Sockets, resources \in ResourceSamples :
          HandleHeartbeat(fd, resources) =>
              LET i == find_node_by_id(conns[fd].peer) IN
              IF i = NULL THEN nodes' = nodes
              ELSE /\ Len(nodes') = Len(nodes)
                   /\ nodes'[i].last_heartbeat = now
                   /\ nodes'[i].resources = resources
                   /\ nodes'[i].state =
                          IF nodes[i].state = NODE_ERROR THEN NODE_ERROR
                          ELSE NODE_CONNECTED
                   /\ \A j \in NodeIndexes : j # i => nodes'[j] = nodes[j]]_vars

(* C15 witness: a heartbeat has just been processed for a worker that      *)
(* registered earlier; its record is CONNECTED, carries the time of the    *)
(* heartbeat, later than its registration, and the sample of the frame.    *)
C15_Witness ==
    /\ last.op = "heartbeat" /\ last.res = "OK"
    /\ now > 0
    /\ \E i \in NodeIndexes :
          /\ nodes[i].id = last.id
          /\ nodes[i].state = NODE_CONNECTED
          /\ nodes[i].last_heartbeat = now
          /\ nodes[i].resources \in ResourceSamples

(* C16: from one state to the next, a worker record that is CONNECTED      *)
(* before and after the step never has its last_heartbeat decreased.       *)
C16_HeartbeatNeverDecreases ==
    [][\A i \in NodeIndexes :
          (nodes[i].state = NODE_CONNECTED /\ nodes'[i].state = NODE_CONNECTED) =>
              nodes'[i].last_heartbeat >= nodes[i].last_heartbeat]_vars

(* C16 witness: a CONNECTED worker that has sent a heartbeat registers     *)
(* again at a later time; its record is still CONNECTED and carries the    *)
(* time of the second register.                                            *)
C16_Witness ==
    /\ last.op = "register" /\ last.res = "OK"
    /\ now > 0
    /\ \E i \in NodeIndexes :
          /\ nodes[i].id = last.id
          /\ nodes[i].state = NODE_CONNECTED
          /\ nodes[i].resources \in ResourceSamples
          /\ nodes[i].last_heartbeat = now

(* C14: a register with an id the registry does not hold, made while the   *)
(* registry holds its maximum number of records, is rejected and answered  *)
(* by no frame, and leaves the registry exactly as it was (no record       *)
(* added, overwritten or moved); the number of records never exceeds the   *)
(* maximum.                                                                *)
C14_FullRegistryRejectsNewId ==
    [][/\ (/\ last'.op = "register"
           /\ find_node_by_id(last'.id) = NULL
           /\ Len(nodes) >= MaxNodes) =>
              /\ last'.res = "MaxNodes"
              /\ last'.sent = NoFrame
              /\ nodes' = nodes
       /\ Len(nodes') <= MaxNodes]_vars

(* C14 witness: the registry is full and a worker whose id it does not     *)
(* hold has just been refused.                                             *)
C14_Witness ==
    /\ last.op = "register" /\ last.res = "MaxNodes"
    /\ Len(nodes) = MaxNodes
    /\ find_node_by_id(last.id) = NULL
    /\ \E fd \in Sockets : conns[fd].open /\ conns[fd].peer = last.id

(* C18: while a worker record is not CONNECTED no container of that worker *)
(* changes state in the coordinator: a CONTAINER_STATUS or an ACK whose    *)
(* sender is that worker, and a start or a stop of one of its containers,  *)
(* leave the containers in the worker's list and the worker's records in   *)
(* the ledger as they were.                                                *)
C18_DisconnectedWorkerFrozen ==
    [][last'.op \in {"status", "ack", "start", "stop"} =>
          \A i \in NodeIndexes :
              nodes[i].state # NODE_CONNECTED =>
                  /\ nodes'[i].containers = nodes[i].containers
                  /\ Len(deployed_containers') = Len(deployed_containers)
                  /\ \A c \in LedgerIndexes :
                        deployed_containers[c].node_id = nodes[i].id =>
                            deployed_containers'[c] = deployed_containers[c]]_vars

(* C17: in every state another thread can observe, a worker record whose   *)
(* state is neither CONNECTED nor BUSY has no connection attached          *)
(* (socket_fd = -1), and a record that has a connection attached is        *)
(* CONNECTED.                                                              *)
C17_NoSocketUnlessConnected ==
    \A i \in NodeIndexes :
        /\ nodes[i].state \notin {NODE_CONNECTED, NODE_BUSY} => nodes[i].socket_fd = NoFd
        /\ nodes[i].socket_fd # NoFd => nodes[i].state = NODE_CONNECTED

(* C19: a start or a stop of a container whose worker is not CONNECTED is  *)
(* rejected: it returns an error, sends no frame and leaves the ledger as  *)
(* it is; a start or a stop of an id the ledger does not hold returns      *)
(* not-found, sends no frame and leaves the ledger as it is.               *)
C19_StartStopNeedConnectedWorker ==
    [][last'.op \in {"start", "stop"} =>
          LET c == find_container(last'.id) IN
          IF c = NULL
          THEN /\ last'.res = "ContainerNotFound"
               /\ last'.sent = NoFrame
               /\ deployed_containers' = deployed_containers
          ELSE LET i == find_node_by_id(deployed_containers[c].node_id) IN
               (i # NULL /\ nodes[i].state # NODE_CONNECTED) =>
                   /\ last'.res # "OK"
                   /\ last'.sent = NoFrame
                   /\ deployed_containers' = deployed_containers]_vars

(* The deploys before command k that made a record with the id of k *)
DeploysOf(k) ==
    {d \in 1 .. (k - 1) : ops[d].op = "deploy" /\ ops[d].id = ops[k].id}

(* Two consecutive operator deletes of one id, deployed once before them:  *)
(* one deploy has made a record with that id, and the record is in the     *)
(* ledger when the first delete is made                                    *)
DeleteTwice(k) ==
    /\ k \in 1 .. (Len(ops) - 1)
    /\ ops[k].op = "delete" /\ ops[k + 1].op = "delete"
    /\ ops[k + 1].id = ops[k].id
    /\ Cardinality(DeploysOf(k)) = 1
    /\ ops[k].before = 1

(* The place in the worker's log of the frame command k sent *)
FrameIndex(k) == Cardinality({j \in 1 .. k : ops[j].sent # NoFrame})

(* The worker has handled the frame command k sent *)
FrameHandled(k) == ops[k].sent # NoFrame /\ FrameIndex(k) <= Len(handled)

(* The calls of lxc_destroy_container command k has caused so far *)
Destroys(k) == IF FrameHandled(k) /\ handled[FrameIndex(k)].destroy THEN 1 ELSE 0

(* The deploy that made the record command k deletes *)
DeployOf(k) == CHOOSE d \in DeploysOf(k) : TRUE

C21_DeleteNotInTransit ==
    [][(last'.op = "delete" /\ Len(deployed_containers') < Len(deployed_containers)) =>
          deployed_containers[find_container(last'.id)].state \in
              {CONTAINER_STOPPED, CONTAINER_RUNNING, CONTAINER_ERROR}]_vars

(* C23: a deploy that reports success has created the record of the        *)
(* container, in state STARTING, and whenever a DEPLOY_CONTAINER frame has *)
(* been sent for a container the ledger holds the record of it.            *)
C23_RecordBeforeFrame ==
    [][(last'.op = "deploy" /\ (last'.res = "OK" \/ last'.sent = "DEPLOY_CONTAINER")) =>
          /\ Len(deployed_containers') = Len(deployed_containers) + 1
          /\ deployed_containers'[Len(deployed_containers')].name = last'.id
          /\ deployed_containers'[Len(deployed_containers')].state = CONTAINER_STARTING]_vars

(* C25: when the receive on a connection fails (short read, close or       *)
(* error) the coordinator dispatches nothing from it, stops reading the    *)
(* connection and closes the socket, and the worker registered on that     *)
(* connection is marked DISCONNECTED with no connection attached; no other *)
(* record and no other field of that record changes.                       *)
C25_FailedReceiveDisconnects ==
    [][last'.op = "close" =>
          \E fd \in Sockets :
              /\ conns[fd].open /\ ~conns'[fd].open
              /\ \A other \in Sockets \ {fd} : conns'[other] = conns[other]
              /\ deployed_containers' = deployed_containers
              /\ Len(nodes') = Len(nodes)
              /\ LET i == find_node_by_id(conns[fd].node_id) IN
                 \A j \in NodeIndexes :
                     IF conns[fd].node_id # "" /\ j = i
                     THEN nodes'[j] = [nodes[j] EXCEPT !.state = NODE_DISCONNECTED,
                                                       !.socket_fd = NoFd]
                     ELSE nodes'[j] = nodes[j]]_vars

(* C25 witness: the receive has failed on the connection of a registered   *)
(* worker while another worker is connected: the first is DISCONNECTED     *)
(* with no descriptor, its connection is closed, the other is as before.   *)
C25_Witness ==
    /\ last.op = "close" /\ last.res = "OK"
    /\ Len(nodes) = 2
    /\ \E i, j \in NodeIndexes :
          /\ nodes[i].id = last.id
          /\ nodes[i].state = NODE_DISCONNECTED /\ nodes[i].socket_fd = NoFd
          /\ j # i
          /\ nodes[j].state = NODE_CONNECTED
          /\ nodes[j].socket_fd \in Sockets /\ conns[nodes[j].socket_fd].open
    /\ \E fd \in Sockets : ~conns[fd].open

(* C24: for every message whose payload fits the frame's payload region,   *)
(* the message received after create_message, send_message and             *)
(* receive_message equals the one asked for in type, sender_id,            *)
(* recipient_id, data_length and the first data_length bytes of the        *)
(* payload.                                                                *)
C24_CodecRoundTrip ==
    (codec.stage = "received" /\ Len(codec.m.data) <= DataCap) =>
        /\ codec.msg.type = codec.m.type
        /\ CString(codec.msg.sender_id) = codec.m.sender_id
        /\ CString(codec.msg.recipient_id) = codec.m.recipient_id
        /\ codec.msg.data_length = Len(codec.m.data)
        /\ SubSeq(codec.msg.data, 1, codec.msg.data_length) = codec.m.data

(* C24 witness: a message with a sender id of the greatest length that     *)
(* fits and a payload that fills the payload region, with a zero byte in   *)
(* it, has been received.                                                  *)
C24_Witness ==
    /\ codec.stage = "received"
    /\ Len(codec.m.sender_id) = NameCap - 1
    /\ Len(codec.m.data) = DataCap
    /\ codec.m.data[1] = 0
    /\ codec.msg.data_length = DataCap

(* the entry message_handler_thread added to its log in this step *)
JustHandled == handled'[Len(handled')]

HandledCommand ==
    /\ Len(handled') = Len(handled) + 1
    /\ JustHandled.type \in WorkerCases

CountOf(replies, type) == Cardinality({k \in DOMAIN replies : replies[k].type = type})

(* C27: when the worker fails to handle a deploy, start, stop or delete    *)
(* command it replies with exactly one ERROR and no ACK, and afterwards    *)
(* its local list holds a record of that container in state ERROR; when    *)
(* it succeeds it replies with exactly one ACK                             *)
C27_FailureLeavesErrorRecord ==
    [][HandledCommand =>
         IF JustHandled.ret # 0
         THEN /\ CountOf(JustHandled.replies, "ERROR") = 1
              /\ CountOf(JustHandled.replies, "ACK") = 0
              /\ \E i \in DOMAIN local_containers' :
                     /\ local_containers'[i].name = JustHandled.name
                     /\ local_containers'[i].state = CONTAINER_ERROR
         ELSE /\ CountOf(JustHandled.replies, "ACK") = 1
              /\ CountOf(JustHandled.replies, "ERROR") = 0]_vars

(* C28: every store to the state of a record of the worker's local list    *)
(* is a legal transition and is followed by a CONTAINER_STATUS frame that   *)
(* carries the state stored                                                 *)
C28_LocalChangesPushed ==
    [][HandledCommand =>
         \A k \in DOMAIN JustHandled.writes :
             LET w == JustHandled.writes[k] IN
             w.from # "none" =>
                 /\ Legal(w.from, w.to)
                 /\ \E j \in DOMAIN JustHandled.replies :
                        /\ JustHandled.replies[j].type = "CONTAINER_STATUS"
                        /\ JustHandled.replies[j].state = w.to]_vars

(* C26: a frame of a type the receiver has no case for is logged and       *)
(* ignored by the coordinator (registry, ledger and connection stay as     *)
(* they are) and makes the worker close its connection to the coordinator  *)
C26_UnhandledFrame ==
    [][/\ (up # <<>> /\ up' = Tail(up) /\ Head(up).type = "ACK") =>
              /\ UNCHANGED <<nodes, deployed_containers>>
              /\ conns'[WorkerSocket] = conns[WorkerSocket]
       /\ (Len(handled') = Len(handled) + 1 /\ JustHandled.type \notin WorkerCases) =>
              /\ worker'.coordinator_socket = NoFd
              /\ ~worker'.rx]_vars

(* C29: once a send or a receive on the coordinator's connection has       *)
(* failed, the worker's process ends                                       *)
C29_IoErrorEndsWorker ==
    worker.io_error ~> (worker.pc = "exited")

RegistrationRefused ==
    /\ worker.pc = "wait_ack"
    /\ last = Outcome("register", WorkerId, "MaxNodes", NoFrame)

(* C30: the worker's two threads run only after the coordinator has taken  *)
(* its registration, and a worker whose registration the coordinator       *)
(* refuses does not wait for ever: its process ends                        *)
C30_RefusedWorkerExits ==
    /\ []((worker.rx \/ worker.hb) => find_node_by_id(WorkerId) # NULL)
    /\ RegistrationRefused ~> (worker.pc = "exited")

(* C22: a record that deploy has put into the ledger in state STARTING     *)
(* leaves STARTING                                                         *)
C22_StartingEnds ==
    \A container_id \in ContainerIds :
        (StatusIn(deployed_containers, container_id) = CONTAINER_STARTING)
            ~> (StatusIn(deployed_containers, container_id) # CONTAINER_STARTING)

(* the places of the records a worker's list holds for ledger record c *)
CopiesOf(c) ==
    {<<i, k>> \in NodeIndexes \X (1 .. MaxContainers) :
        /\ k <= Len(nodes[i].containers)
        /\ nodes[i].id = deployed_containers[c].node_id
        /\ nodes[i].containers[k].id = deployed_containers[c].id}

(* C39: after every start, stop and CONTAINER_STATUS the ledger record of  *)
(* a container and the record in its worker's list hold the same state     *)
C39_CopiesAgree ==
    last.op \in {"start", "stop", "status"} =>
        \A c \in LedgerIndexes : \A p \in CopiesOf(c) :
            nodes[p[1]].containers[p[2]].state = deployed_containers[c].state

(* C38: the end of a connection's handler leaves alone every worker record *)
(* whose socket is another connection                                      *)
C38_OldHandlerLeavesRecord ==
    [][\A fd \in Sockets :
          (conns[fd].open /\ ~conns'[fd].open) =>
              \A i \in NodeIndexes :
                  nodes[i].socket_fd # fd => nodes'[i] = nodes[i]]_vars

(* C40: a worker whose record still has the zeroed resources of its first  *)
(* registration is never what placement returns, and the score is only     *)
(* computed for records with max_containers > 0                            *)
C40_ZeroCapacityNeverPlaced ==
    /\ find_best_node # NULL => nodes[find_best_node].resources.max_containers > 0
    /\ \A i \in NodeIndexes :
          (node_responsive(nodes[i], now) /\ node_has_capacity(nodes[i])) =>
              nodes[i].resources.max_containers > 0

(* C40 witness: a deploy was placed while the registry held a CONNECTED    *)
(* worker with a fresh registration and no heartbeat processed             *)
C40_Witness ==
    /\ last.op = "deploy" /\ last.res = "OK"
    /\ \E i \in NodeIndexes :
          /\ nodes[i].state = NODE_CONNECTED
          /\ nodes[i].resources = ZeroResources
          /\ now - nodes[i].last_heartbeat <= HEARTBEAT_TIMEOUT

(* C32: find_best_node changes neither the registry nor the ledger, and    *)
(* what it returns is the same for every spec placed: it is a function of  *)
(* the registry and the time alone                                         *)
C32_PlacementPure ==
    [][last'.op = "place" =>
         /\ UNCHANGED <<nodes, deployed_containers, conns>>
         /\ \A config \in Configs : last'.res = PlacedOn(find_best_node_for(config))]_vars

(* C32 witness: a placement for a spec that asks for 4 CPUs and 1024 MB    *)
(* has returned a worker that already holds a container                    *)
C32_Witness ==
    /\ last.op = "place" /\ last.id = "db"
    /\ \E i \in NodeIndexes :
          /\ nodes[i].id = last.res
          /\ nodes[i].container_count > 0
    /\ Cardinality(EligibleIndexes) > 1

(* C31: unregister_node takes the worker's record out of the registry,     *)
(* removes no ledger record and leaves every ledger record of that worker  *)
(* in state ERROR                                                          *)
C31_UnregisterOrphansContainers ==
    [][(last'.op = "unregister" /\ last'.res = "OK") =>
         /\ FirstIndex(nodes', last'.id, 1) = NULL
         /\ Len(deployed_containers') = Len(deployed_containers)
         /\ \A c \in 1 .. Len(deployed_containers') :
                deployed_containers'[c].node_id = last'.id =>
                    deployed_containers'[c].state = CONTAINER_ERROR]_vars

(* the step sends the worker's ACK or ERROR *)
ReplySent ==
    /\ Len(up') = Len(up) + 1
    /\ SubSeq(up', 1, Len(up)) = up
    /\ up'[Len(up')].type \in {"ACK", "ERROR"}

(* C33: when the worker sends the ACK or ERROR of a command, the handler   *)
(* of that command has returned (local list updated, driver call done),    *)
(* and for a start or stop that succeeded the CONTAINER_STATUS frame with  *)
(* the new state has been sent before                                      *)
C33_AppliedBeforeReply ==
    [][ReplySent =>
         /\ worker.outstanding # <<>>
         /\ Head(worker.outstanding).stage = "handled"
         /\ local_containers' = local_containers
         /\ handled # <<>>
         /\ LET h == handled[Len(handled)] IN
            /\ h.type = Head(worker.outstanding).type
            /\ h.name = Head(worker.outstanding).name
            /\ (h.ret = 0 /\ h.type \in {"START_CONTAINER", "STOP_CONTAINER"}) =>
                   \E j \in DOMAIN h.replies :
                       /\ h.replies[j].type = "CONTAINER_STATUS"
                       /\ h.replies[j].state = h.writes[Len(h.writes)].to]_vars

(* C33 witness: the ACK of a start that succeeded has been sent, after the *)
(* CONTAINER_STATUS RUNNING of that start                                  *)
C33_Witness ==
    /\ handled # <<>>
    /\ worker.outstanding = <<>>
    /\ LET h == handled[Len(handled)] IN
       /\ h.type = "START_CONTAINER" /\ h.ret = 0
       /\ h.replies = <<StatusFrame(h.name, CONTAINER_RUNNING), [type |-> "ACK"]>>

(* C36: the worker never has two commands for one container name open *)
C36_OneCommandPerName ==
    \A i, j \in DOMAIN worker.outstanding :
        i # j => worker.outstanding[i].name # worker.outstanding[j].name

(* C36 witness: a command for a name is open, its handler not yet back,    *)
(* and the next frame for the same name is waiting                         *)
C36_Witness ==
    /\ worker.outstanding # <<>>
    /\ Head(worker.outstanding).stage = "received"
    /\ wire # <<>>
    /\ Head(wire).name = Head(worker.outstanding).name


(* C34: no coordinator thread holds nodes_mutex or containers_mutex during *)
(* network I/O: whenever the operator's thread is at the send_message of   *)
(* deploy, start, stop or delete, it owns neither mutex.                   *)
C34_NoMutexDuringSend ==
    threads["main"].pc = "send" =>
        /\ mutex.nodes_mutex # "main"
        /\ mutex.containers_mutex # "main"

(* C35: every write to a field of a worker record is made under the        *)
(* registry mutex: a step of a thread that changes the registry is a step  *)
(* of the thread that owns nodes_mutex.                                    *)
C35_RegistryWritesLocked ==
    [][\A t \in Threads :
           (threads'[t] # threads[t] /\ nodes' # nodes) => mutex.nodes_mutex = t]_vars

Holds(t, name) == mutex[name] = t

WaitsFor(t, name) ==
    IF name = "nodes_mutex"
    THEN threads[t].pc \in {"lock", "best_lock", "find_lock"}
    ELSE threads[t].pc = "lock_containers"

(* C37: the coordinator cannot deadlock on its two mutexes.  No thread     *)
(* takes containers_mutex while it holds nodes_mutex, so a thread that     *)
(* holds both took containers_mutex first; and in no state do two threads  *)
(* each hold one of the mutexes and wait for the other.                    *)
C37_LockOrder ==
    /\ [](\A t \in Threads, u \in Threads :
              ~ /\ t # u
                /\ Holds(t, "containers_mutex") /\ WaitsFor(t, "nodes_mutex")
                /\ Holds(u, "nodes_mutex") /\ WaitsFor(u, "containers_mutex"))
    /\ [][\A t \in Threads :
              (Holds(t, "containers_mutex")' /\ ~Holds(t, "containers_mutex"))
                  => ~Holds(t, "nodes_mutex")]_vars

(* the operator's thread holds both mutexes while a handler thread waits   *)
(* for nodes_mutex                                                         *)
C37_Witness ==
    /\ Holds("main", "containers_mutex")
    /\ Holds("main", "nodes_mutex")
    /\ \E fd \in Sockets : threads[ThreadOf(fd)].pc = "lock"

====
